---- MODULE Spec2Model ----
(***************************************************************************)
(* Verification model of xrpl-rs:                                          *)
(*   - the WebSocket transport of xrpl-rs/src/transports.rs (Spec),        *)
(*   - the wallet autofill of xrpl-rs/src/wallet/mod.rs (SpecWallet),      *)
(*   - the streaming serializer of serde-xrpl/src/ser.rs (SpecCodec).      *)
(***************************************************************************)
EXTENDS Integers, Sequences, FiniteSets, TLC

(***************************************************************************)
(* Bounds of the model.                                                    *)
(***************************************************************************)
MaxCalls == 2      \* send_request invocations
MaxSubs == 2       \* subscribe invocations
MaxFrames == 2     \* messages read from the socket
MaxOps == 2        \* invocations of one run, all kinds together

Calls == 1..MaxCalls
Subs == 1..MaxSubs

\* Option::None of a request id, of a call and of a call's result.
NoId == 0
NoCall == 0
NoResult == [kind |-> "None", id |-> 0, n |-> 0]

VARIABLES
    \* ---- WebSocket transport (xrpl-rs/src/transports.rs) ----
    counter,            \* WebSocket.counter (AtomicU64)
    pending_requests,   \* WebSocket.pending_requests: id -> call owning the response Sender
    pending_poisoned,   \* the pending_requests mutex was poisoned by a panic under the guard
    subscriptions,      \* WebSocket.subscriptions: Vec of the subscriptions' channels
    outbound,           \* items queued on WebSocket.sender, not yet taken by the writer task
    written,            \* text frames the writer task has forwarded to the socket sink
    received,           \* number of messages the reader task has taken from the read stream
    peer_closed,        \* the read stream is finished after the queued messages
    reader,             \* reader task: "running", "blocked", "panicked", "ended"
    blocked_on,         \* call whose response Sender the reader is parked on
    writer,             \* writer task: "running", "panicked"
    call_pc,            \* position of each send_request invocation
    call_id,            \* id drawn by each send_request invocation
    response,           \* per call: every frame pushed on its response channel, in order
    rx_open,            \* per call: the response Receiver has not been dropped
    call_result,        \* per call: what send_request returned
    sub_pc,             \* position of each subscribe invocation
    sub_id,             \* id drawn by each subscribe invocation
    events,             \* per subscription: items pushed on its event channel, in order
    arrived,            \* per subscription: non-call frames read from the socket since its push
    stream_open,        \* per subscription: the returned stream has not been dropped
    assigned,           \* ids handed out by counter.fetch_add, in order
    unsub_calls         \* results of the unsubscribe invocations so far

wsVars == <<counter, pending_requests, pending_poisoned, subscriptions, outbound, written,
            received, peer_closed, reader, blocked_on, writer,
            call_pc, call_id, response, rx_open, call_result,
            sub_pc, sub_id, events, arrived, stream_open, assigned, unsub_calls>>


(***************************************************************************)
(* Helpers                                                                 *)
(***************************************************************************)
Range(s) == {s[i] : i \in 1..Len(s)}


\* The set of values of a sequence-valued history, as the first n elements.
Prefix(s, n) == SubSeq(s, 1, n)

(***************************************************************************)
(* WebSocket transport: xrpl-rs/src/transports.rs                          *)
(***************************************************************************)

\* Messages the read stream can yield.  `n` is the ordinal of the message on
\* the socket, `id` the request id the frame carries (NoId when it has none).
\*   response : "status" is success or error and an id is present;
\*              parses as WebsocketResponse, get_id() = Some(id)
\*   error    : "status" is error and there is no id;
\*              parses as WebsocketResponse::Error, get_id() = None
\*   event    : no "status" tag; parses as SubscriptionEvent
\*   other    : no "status" tag (or success without id); parses as neither
\*   empty    : message with no data (ping, pong, close)
\*   ioerr    : the stream yields Err(WSError)
FrameKinds == {"response", "error", "event", "other", "empty", "ioerr"}

Frame(k, i, n) == [kind |-> k, id |-> i, n |-> n]

\* serde_json::from_slice::<WebsocketResponse<Value>>(&data).ok()
ParsesAsResponse(f) == f.kind \in {"response", "error"}

\* WebsocketResponse::get_id; NoId stands for Option::None
get_id(f) == f.id

\* serde_json::from_slice::<SubscriptionEvent>(&data)
ParsesAsEvent(f) == f.kind = "event"

\* Invocations of send_request, subscribe and unsubscribe started so far.
Ops == Cardinality({c \in Calls : call_pc[c] # "idle"})
       + Cardinality({s \in Subs : sub_pc[s] # "idle"})
       + Len(unsub_calls)

\* A fetch_add whose increment is lost (a load followed by a store of the same value).
fetch_add_lost(c) == c

\* AtomicU64::fetch_add(1): the value the counter holds afterwards.
fetch_add(c) == c + 1

\* HashMap::insert(id, request)
MapInsert(m, id, c) == [k \in (DOMAIN m) \cup {id} |-> IF k = id THEN c ELSE m[k]]

\* A lookup that ignores the id and takes the oldest pending request.
PendingLookupOldest(m, id) ==
    IF DOMAIN m = {} THEN NoCall
    ELSE m[CHOOSE k \in DOMAIN m : \A j \in DOMAIN m : k <= j]

\* pending_requests.get(&id): the call whose Sender is stored under id, or NoCall.
PendingLookup(m, id) == IF id \in DOMAIN m THEN m[id] ELSE NoCall

WSInit ==
    /\ counter = 1
    /\ pending_requests = << >>
    /\ pending_poisoned = FALSE
    /\ subscriptions = << >>
    /\ outbound = << >>
    /\ written = << >>
    /\ received = 0
    /\ peer_closed = FALSE
    /\ reader = "running"
    /\ blocked_on = NoCall
    /\ writer = "running"
    /\ call_pc = [c \in Calls |-> "idle"]
    /\ call_id = [c \in Calls |-> NoId]
    /\ response = [c \in Calls |-> << >>]
    /\ rx_open = [c \in Calls |-> FALSE]
    /\ call_result = [c \in Calls |-> NoResult]
    /\ sub_pc = [s \in Subs |-> "idle"]
    /\ sub_id = [s \in Subs |-> NoId]
    /\ events = [s \in Subs |-> << >>]
    /\ arrived = [s \in Subs |-> << >>]
    /\ stream_open = [s \in Subs |-> FALSE]
    /\ assigned = << >>
    /\ unsub_calls = << >>

readerVars == <<reader, blocked_on>>
peerVars == <<received, peer_closed>>
callVars == <<call_pc, call_id, response, rx_open, call_result>>
subVars == <<sub_pc, sub_id, events, arrived, stream_open>>

\* send_request, lines 188-202, which run without suspending:
\*   let id = self.counter.fetch_add(1, Relaxed); let (s, r) = mpsc::channel(1);
\*   if let Ok(mut pending_requests) = self.pending_requests.lock() { insert(id, request) }
\* The insert is skipped when lock() is Err (the mutex is poisoned).
SendRequestInsert(c) ==
    /\ call_pc[c] = "idle"
    /\ \A b \in Calls : b < c => call_pc[b] # "idle"  \* invocations are numbered in the order they start
    /\ Ops < MaxOps
    /\ call_id' = [call_id EXCEPT ![c] = counter]
    /\ counter' = fetch_add(counter)
    /\ assigned' = Append(assigned, counter)
    /\ rx_open' = [rx_open EXCEPT ![c] = TRUE]
    /\ pending_requests' = IF pending_poisoned THEN pending_requests
                           ELSE MapInsert(pending_requests, counter, c)
    /\ call_pc' = [call_pc EXCEPT ![c] = "enqueue"]
    /\ UNCHANGED <<pending_poisoned, subscriptions, outbound, written,
                   peerVars, readerVars, writer, response, call_result, subVars, unsub_calls>>

\* send_request, lines 203-206: sender.send(Outbound::PendingRequest(request)).await
\* The send fails once the writer task has dropped the receiver.
SendRequestEnqueue(c) ==
    /\ call_pc[c] = "enqueue"
    /\ IF writer = "running"
       THEN /\ outbound' = Append(outbound, [kind |-> "PendingRequest", id |-> call_id[c],
                                             command |-> "call"])
            /\ call_pc' = [call_pc EXCEPT ![c] = "waiting"]
            /\ UNCHANGED <<rx_open, call_result>>
       ELSE /\ call_pc' = [call_pc EXCEPT ![c] = "done"]
            /\ call_result' = [call_result EXCEPT ![c] = [kind |-> "ErrorResponse", id |-> NoId, n |-> 0]]
            /\ rx_open' = [rx_open EXCEPT ![c] = FALSE]
            /\ UNCHANGED outbound
    /\ UNCHANGED <<counter, pending_requests, pending_poisoned, subscriptions, written,
                   peerVars, reader, blocked_on, writer, call_id, response, subVars,
                   assigned, unsub_calls>>

\* A Sender parked on the call's channel is released when the Receiver takes a
\* message or is dropped.
Release(c) == IF reader = "blocked" /\ blocked_on = c THEN "running" ELSE reader

\* send_request, lines 207-219: r.take(1).collect().await.first().unwrap().clone()
\* The first frame on the channel is the result; the Receiver is dropped.
SendRequestReceive(c) ==
    /\ call_pc[c] = "waiting"
    /\ response[c] # << >>
    /\ call_result' = [call_result EXCEPT ![c] = Head(response[c])]
    /\ rx_open' = [rx_open EXCEPT ![c] = FALSE]
    /\ call_pc' = [call_pc EXCEPT ![c] = "done"]
    /\ reader' = Release(c)
    /\ blocked_on' = IF reader' = reader THEN blocked_on ELSE NoCall
    /\ UNCHANGED <<counter, pending_requests, pending_poisoned, subscriptions, outbound,
                   written, peerVars, writer, call_id, response, subVars, assigned,
                   unsub_calls>>

\* The caller drops the future returned by send_request while it waits
\* (a timeout wrapped around the call fired): the Receiver is dropped.
DropCall(c) ==
    /\ call_pc[c] = "waiting"
    /\ rx_open' = [rx_open EXCEPT ![c] = FALSE]
    /\ call_pc' = [call_pc EXCEPT ![c] = "dropped"]
    /\ reader' = Release(c)
    /\ blocked_on' = IF reader' = reader THEN blocked_on ELSE NoCall
    /\ UNCHANGED <<counter, pending_requests, pending_poisoned, subscriptions, outbound,
                   written, peerVars, writer, call_id, response, call_result, subVars,
                   assigned, unsub_calls>>

\* subscribe, lines 232-245, which run without suspending:
\*   let id = self.counter.fetch_add(1, Relaxed); let (s, r) = mpsc::unbounded();
\*   if let Ok(mut subs) = self.subscriptions.lock() { subs.push(req.clone()) }
SubscribePush(s) ==
    /\ sub_pc[s] = "idle"
    /\ \A b \in Subs : b < s => sub_pc[b] # "idle"  \* invocations are numbered in the order they start
    /\ Ops < MaxOps
    /\ sub_id' = [sub_id EXCEPT ![s] = counter]
    /\ counter' = fetch_add(counter)
    /\ assigned' = Append(assigned, counter)
    /\ stream_open' = [stream_open EXCEPT ![s] = TRUE]
    /\ subscriptions' = Append(subscriptions, s)
    /\ sub_pc' = [sub_pc EXCEPT ![s] = "enqueue"]
    /\ UNCHANGED <<pending_requests, pending_poisoned, outbound, written,
                   peerVars, readerVars, writer, callVars, events, arrived, unsub_calls>>

\* subscribe, lines 246-250: sender.send(Outbound::Subscription(req)).await; Ok(Box::pin(r))
\* When the send fails the function returns Err and r is dropped.
SubscribeEnqueue(s) ==
    /\ sub_pc[s] = "enqueue"
    /\ IF writer = "running"
       THEN /\ outbound' = Append(outbound, [kind |-> "Subscription", id |-> sub_id[s],
                                             command |-> "subscribe"])
            /\ sub_pc' = [sub_pc EXCEPT ![s] = "streaming"]
            /\ UNCHANGED stream_open
       ELSE /\ sub_pc' = [sub_pc EXCEPT ![s] = "failed"]
            /\ stream_open' = [stream_open EXCEPT ![s] = FALSE]
            /\ UNCHANGED outbound
    /\ UNCHANGED <<counter, pending_requests, pending_poisoned, subscriptions, written,
                   peerVars, readerVars, writer, callVars, sub_id, events, arrived,
                   assigned, unsub_calls>>

\* The subscriber drops the stream subscribe returned.
DropStream(s) ==
    /\ sub_pc[s] = "streaming"
    /\ stream_open' = [stream_open EXCEPT ![s] = FALSE]
    /\ sub_pc' = [sub_pc EXCEPT ![s] = "closed"]
    /\ UNCHANGED <<counter, pending_requests, pending_poisoned, subscriptions, outbound,
                   written, peerVars, readerVars, writer, callVars, sub_id, events, arrived,
                   assigned, unsub_calls>>

\* unsubscribe, lines 252-254: Err(TransportError::Error("test")); nothing else.
Unsubscribe(s) ==
    /\ sub_pc[s] = "streaming"
    /\ \A i \in 1..Len(unsub_calls) : unsub_calls[i].sub # s
    /\ Ops < MaxOps
    /\ unsub_calls' = Append(unsub_calls, [sub |-> s, result |-> "Error"])
    /\ UNCHANGED <<counter, pending_requests, pending_poisoned, subscriptions, outbound,
                   written, peerVars, readerVars, writer, callVars, subVars, assigned>>

\* Writer task, lines 306-320: receiver.map(to text frame).map(Ok).forward(write).await.unwrap()
\* Writing to a socket the peer has closed is an error: forward returns it,
\* unwrap panics and the receiver of the outbound queue is dropped with the task.
WriterStep ==
    /\ writer = "running"
    /\ outbound # << >>
    /\ IF peer_closed
       THEN /\ writer' = "panicked"
            /\ outbound' = << >>
            /\ UNCHANGED written
       ELSE /\ written' = Append(written, Head(outbound))
            /\ outbound' = Tail(outbound)
            /\ UNCHANGED writer
    /\ UNCHANGED <<counter, pending_requests, pending_poisoned, subscriptions, peerVars,
                   readerVars, callVars, subVars, assigned, unsub_calls>>

\* Index of the first subscription of the snapshot whose stream was dropped
\* (ch.send(event).await is Err there, and unwrap panics); 0 when there is none.
FirstClosed(subs) ==
    IF \E i \in 1..Len(subs) : ~stream_open[subs[i]]
    THEN CHOOSE i \in 1..Len(subs) :
            /\ ~stream_open[subs[i]]
            /\ \A j \in 1..(i - 1) : stream_open[subs[j]]
    ELSE 0

\* The subscriptions of the snapshot that receive the item before the loop ends.
Receivers(subs) ==
    IF FirstClosed(subs) = 0 THEN Range(subs)
    ELSE Range(Prefix(subs, FirstClosed(subs) - 1))

\* The item pushed on a subscription channel for frame f, lines 296-297.
EventItem(f) == [ok |-> ParsesAsEvent(f), frame |-> f]

\* Reader task, lines 277-303: the handling of one message f of the read stream.
ReaderStep(f) ==
    /\ reader = "running"
    /\ received' = received + 1
    /\ LET c == PendingLookup(pending_requests, get_id(f))
       IN
       \* line 278: message.unwrap()
       IF f.kind = "ioerr"
       THEN /\ reader' = "panicked"
            /\ UNCHANGED <<pending_poisoned, blocked_on, response, events, arrived>>
       \* lines 279-281
       ELSE IF f.kind = "empty"
       THEN UNCHANGED <<readerVars, pending_poisoned, response, events, arrived>>
       ELSE IF ParsesAsResponse(f)
       THEN \* line 287: res.get_id().unwrap() panics under the MutexGuard
            IF get_id(f) = NoId
            THEN /\ reader' = "panicked"
                 /\ pending_poisoned' = TRUE
                 /\ arrived' = [s \in Subs |-> IF s \in Range(subscriptions)
                                               THEN Append(arrived[s], f) ELSE arrived[s]]
                 /\ UNCHANGED <<blocked_on, response, events>>
            \* line 288: no pending request under this id
            ELSE IF c = NoCall
            THEN UNCHANGED <<readerVars, pending_poisoned, response, events, arrived>>
            \* lines 289-290: r.send(res).await.unwrap()
            ELSE IF ~rx_open[c]
            THEN /\ reader' = "panicked"
                 /\ UNCHANGED <<pending_poisoned, blocked_on, response, events, arrived>>
            ELSE /\ response' = [response EXCEPT ![c] = Append(@, f)]
                 /\ reader' = IF response[c] = << >> THEN "running" ELSE "blocked"
                 /\ blocked_on' = IF response[c] = << >> THEN NoCall ELSE c
                 /\ UNCHANGED <<pending_poisoned, events, arrived>>
       \* lines 293-301: broadcast to the snapshot of the subscriptions
       ELSE /\ events' = [s \in Subs |-> IF s \in Receivers(subscriptions)
                                         THEN Append(events[s], EventItem(f))
                                         ELSE events[s]]
            /\ arrived' = [s \in Subs |-> IF s \in Range(subscriptions)
                                          THEN Append(arrived[s], f) ELSE arrived[s]]
            /\ reader' = IF FirstClosed(subscriptions) = 0 THEN "running" ELSE "panicked"
            /\ UNCHANGED <<pending_poisoned, blocked_on, response>>
    /\ UNCHANGED <<counter, pending_requests, subscriptions, outbound, written,
                   peer_closed, writer, call_pc, call_id, rx_open, call_result,
                   sub_pc, sub_id, stream_open, assigned, unsub_calls>>

\* The ids the peer may put in a response: those of the requests written to
\* the socket so far (it may answer one more than once, and answer a subscribe).
PeerIds == {written[i].id : i \in 1..Len(written)}

\* The messages the peer can send next.
PeerFrames ==
    {Frame("response", i, received + 1) : i \in PeerIds}
    \cup {Frame(k, NoId, received + 1) : k \in FrameKinds \ {"response"}}

\* The reader task takes the next message the peer has sent.
Receive ==
    /\ ~peer_closed
    /\ received < MaxFrames
    /\ \E f \in PeerFrames : ReaderStep(f)

\* Reader task, line 304: the read stream is finished, for_each completes.
ReaderEnd ==
    /\ reader = "running"
    /\ peer_closed
    /\ reader' = "ended"
    /\ UNCHANGED <<counter, pending_requests, pending_poisoned, subscriptions, outbound,
                   written, peerVars, blocked_on, writer, callVars, subVars, assigned,
                   unsub_calls>>

\* The peer closes the connection.
PeerClose ==
    /\ ~peer_closed
    /\ peer_closed' = TRUE
    /\ UNCHANGED <<counter, pending_requests, pending_poisoned, subscriptions, outbound,
                   written, received, readerVars, writer, callVars, subVars,
                   assigned, unsub_calls>>


(***************************************************************************)
(* Wallet autofill: xrpl-rs/src/wallet/mod.rs                              *)
(***************************************************************************)
MaxFills == 2      \* auto_fill_fields invocations on the wallet
MaxSets == 2       \* set_sequence / set_fee / set_max_fee invocations

VARIABLES
    sequence,           \* Wallet.sequence: Option<u32>
    fee,                \* Wallet.fee: Option<BigInt>
    max_fee,            \* Wallet.max_fee: BigInt
    ledger_offset,      \* Wallet.ledger_offset: u32
    overflow_checks,    \* the build panics on integer overflow (debug) or wraps (release)
    wallet_alive,       \* no auto_fill_fields invocation has panicked
    conf_sequence,      \* the caller has called set_sequence
    conf_fee,           \* the caller has called set_fee
    tx,                 \* the Transaction the latest auto_fill_fields invocation was given, after it
    fills,              \* what the latest auto_fill_fields invocation and the one before did
    filled,             \* number of auto_fill_fields invocations so far
    sets                \* number of setter invocations so far

walletVars == <<sequence, fee, max_fee, ledger_offset, overflow_checks, wallet_alive,
                conf_sequence, conf_fee, tx, fills, filled, sets>>

\* u32 as two 16-bit limbs, so that the values around u32::MAX are representable.
Limb == 65536
U32(h, l) == [hi |-> h, lo |-> l]
U32Max == U32(Limb - 1, Limb - 1)

\* a + b does not fit in a u32.
Overflows(a, b) == a.hi + b.hi + ((a.lo + b.lo) \div Limb) >= Limb

\* a + b modulo 2^32 (what the addition yields without overflow checks).
wrapping_add(a, b) ==
    U32((a.hi + b.hi + ((a.lo + b.lo) \div Limb)) % Limb, (a.lo + b.lo) % Limb)

\* b is the integer a + 1.
IsSuccessor(a, b) == ~Overflows(a, U32(0, 1)) /\ b = wrapping_add(a, U32(0, 1))

\* a < b as integers.
U32Less(a, b) == a.hi < b.hi \/ (a.hi = b.hi /\ a.lo < b.lo)

NoneU32 == [some |-> FALSE, val |-> U32(0, 0)]
SomeU32(v) == [some |-> TRUE, val |-> v]
NoneDrops == [some |-> FALSE, val |-> 0]
SomeDrops(d) == [some |-> TRUE, val |-> d]

DEFAULT_MAX_FEE == 100
DEFAULT_LEDGER_OFFSET == 20
tfFullyCanonicalSig == U32(32768, 0)     \* 2147483648u32

\* Values the caller and the ledger are drawn from.
SequenceInputs == {U32(0, 1), U32Max}
AccountSequences == {U32(0, 5), U32Max}
FeeInputs == {10, 101}
MaxFeeInputs == {10, 200}
OpenLedgerFees == {10, 101}
LedgerIndexes == {U32(0, 7), U32Max}
FlagInputs == {NoneU32, SomeU32(U32(0, 0))}

\* What xrpl.account_info, xrpl.fee and xrpl.ledger can return.
AccountInfoResponses ==
    {[ok |-> FALSE, sequence |-> U32(0, 0), xrp |-> FALSE, drops |-> 0]}
        \cup {[ok |-> TRUE, sequence |-> s, xrp |-> FALSE, drops |-> 0] :
                s \in AccountSequences}
FeeResponses ==
    {[ok |-> FALSE, xrp |-> FALSE, drops |-> 0], [ok |-> TRUE, xrp |-> FALSE, drops |-> 0]}
        \cup {[ok |-> TRUE, xrp |-> TRUE, drops |-> d] : d \in OpenLedgerFees}
LedgerResponses ==
    {[ok |-> FALSE, ledger_index |-> NoneU32], [ok |-> TRUE, ledger_index |-> NoneU32]}
        \cup {[ok |-> TRUE, ledger_index |-> SomeU32(i)] : i \in LedgerIndexes}

\* The response of a request the call has no reason to send.
NotAsked == [ok |-> FALSE, sequence |-> U32(0, 0), xrp |-> FALSE, drops |-> 0]

\* Transaction::default() with the flags the caller chose.
NewTransaction(flags) ==
    [flags |-> flags, account |-> "", sequence |-> U32(0, 0), fee |-> 0,
     last_ledger_sequence |-> U32(0, 0)]

\* Wallet::from_secret and Wallet::new_random: the sequence a new wallet holds.
from_secret == NoneU32
new_random == SomeU32(U32(0, 0))

WalletInit ==
    /\ sequence \in {from_secret, new_random}
    /\ fee = NoneDrops
    /\ max_fee = DEFAULT_MAX_FEE
    /\ ledger_offset = U32(0, DEFAULT_LEDGER_OFFSET)
    /\ overflow_checks \in BOOLEAN
    /\ wallet_alive = TRUE
    /\ conf_sequence = FALSE
    /\ conf_fee = FALSE
    /\ tx = NewTransaction(NoneU32)
    /\ fills = << >>
    /\ filled = 0
    /\ sets = 0

\* self.sequence.is_none(): the call has to ask the ledger for the sequence.
NeedsAccountInfoAlways(seq) == TRUE
NeedsAccountInfo(seq) == ~seq.some

\* self.fee.is_none(): the call has to ask the ledger for the fee.
NeedsFee(fe) == ~fe.some

\* tx.fee > self.max_fee, with the operands exchanged.
ExceedsMaxFlipped(f, m) == f < m
\* tx.fee > self.max_fee
ExceedsMax(f, m) == f > m

\* What one auto_fill_fields invocation leaves behind: the wallet's sequence and
\* fee, the transaction, the requests it sent, its result and the step it
\* returned from.
Outcome(seq, fe, t, reqs, res, at) ==
    [sequence |-> seq, fee |-> fe, tx |-> t, requests |-> reqs, result |-> res, step |-> at]

\* Lines 161-170: the ledger request and last_ledger_sequence.
FillLastLedger(seq, fe, off, chk, t, reqs, lr) ==
    LET reqs3 == Append(reqs, "ledger") IN
    IF ~lr.ok THEN Outcome(seq, fe, t, reqs3, "XRPLError", "ledger")
    ELSE IF ~lr.ledger_index.some
        THEN Outcome(seq, fe, t, reqs3, "LastLedgerSequenceRequired", "ledger")
    ELSE IF Overflows(lr.ledger_index.val, off) /\ chk
        THEN Outcome(seq, fe, t, reqs3, "Panic", "ledger")
    ELSE Outcome(seq, fe,
                 [t EXCEPT !.last_ledger_sequence = wrapping_add(lr.ledger_index.val, off)],
                 reqs3, "Ok", "done")

\* Lines 147-160: the fee request, tx.fee and the max_fee check.
FillFee(seq, fe, mx, off, chk, t, reqs, fr, lr) ==
    LET reqs2 == IF NeedsFee(fe) THEN Append(reqs, "fee") ELSE reqs IN
    IF NeedsFee(fe) /\ ~fr.ok THEN Outcome(seq, fe, t, reqs2, "XRPLError", "fee")
    ELSE
        LET fe1 == IF NeedsFee(fe) /\ fr.xrp THEN SomeDrops(fr.drops) ELSE fe IN
        IF ~fe1.some THEN Outcome(seq, fe1, t, reqs2, "FeeRequired", "fee")
        ELSE
            LET t2 == [t EXCEPT !.fee = fe1.val] IN
            IF ExceedsMax(t2.fee, mx)
                THEN Outcome(seq, fe1, t2, reqs2, "FeeAboveMax", "fee_check")
            ELSE FillLastLedger(seq, fe1, off, chk, t2, reqs2, lr)

\* Lines 127-146: flags, account, the account_info request, tx.sequence and the
\* increment of the local counter.  The else branch of line 144 (SequenceRequired)
\* cannot be taken: the sequence is Some after line 139.
auto_fill_fields(seq, fe, mx, off, chk, t0, ai, fr, lr) ==
    LET t1 == [t0 EXCEPT !.flags = IF t0.flags.some THEN t0.flags
                                   ELSE SomeU32(tfFullyCanonicalSig),
                         !.account = "address"]
        reqs1 == IF NeedsAccountInfo(seq) THEN <<"account_info">> ELSE << >>
    IN
    IF NeedsAccountInfo(seq) /\ ~ai.ok
        THEN Outcome(seq, fe, t1, reqs1, "XRPLError", "account_info")
    ELSE
        LET seq1 == IF NeedsAccountInfo(seq) THEN SomeU32(ai.sequence) ELSE seq
            t2 == [t1 EXCEPT !.sequence = seq1.val]
        IN
        IF Overflows(seq1.val, U32(0, 1)) /\ chk
            THEN Outcome(seq1, fe, t2, reqs1, "Panic", "sequence")
        ELSE FillFee(SomeU32(wrapping_add(seq1.val, U32(0, 1))), fe, mx, off, chk,
                     t2, reqs1, fr, lr)

\* One invocation of Wallet::auto_fill_fields (it holds &mut self, so no other
\* operation on the wallet interleaves with it).
AutoFill ==
    /\ wallet_alive
    /\ filled < MaxFills
    /\ filled' = filled + 1
    /\ \E r \in {[account_info |-> ai,
                  out |-> auto_fill_fields(sequence, fee, max_fee, ledger_offset,
                                           overflow_checks, NewTransaction(flags), ai, fr, lr)] :
                    flags \in FlagInputs,
                    ai \in IF NeedsAccountInfo(sequence) THEN AccountInfoResponses
                           ELSE {NotAsked},
                    fr \in IF NeedsFee(fee) THEN FeeResponses ELSE {NotAsked},
                    lr \in LedgerResponses} :
        /\ sequence' = r.out.sequence
        /\ fee' = r.out.fee
        /\ wallet_alive' = (r.out.result # "Panic")
        /\ tx' = r.out.tx
        /\ fills' = Append(IF fills = << >> THEN << >> ELSE <<fills[Len(fills)]>>,
                [pre_sequence |-> sequence, pre_fee |-> fee, max_fee |-> max_fee,
                 conf_sequence |-> conf_sequence, conf_fee |-> conf_fee,
                 account_info |-> r.account_info,
                 tx_sequence |-> r.out.tx.sequence, tx_fee |-> r.out.tx.fee,
                 requests |-> r.out.requests,
                 result |-> r.out.result, step |-> r.out.step,
                 post_sequence |-> r.out.sequence, post_fee |-> r.out.fee])
    /\ UNCHANGED <<max_fee, ledger_offset, overflow_checks, conf_sequence, conf_fee, sets>>

\* Wallet::set_sequence
SetSequence ==
    /\ wallet_alive
    /\ sets < MaxSets
    /\ \E s \in SequenceInputs : sequence' = SomeU32(s)
    /\ conf_sequence' = TRUE
    /\ sets' = sets + 1
    /\ UNCHANGED <<fee, max_fee, ledger_offset, overflow_checks, wallet_alive, conf_fee,
                   tx, fills, filled>>

\* Wallet::set_fee
SetFee ==
    /\ wallet_alive
    /\ sets < MaxSets
    /\ \E d \in FeeInputs : fee' = SomeDrops(d)
    /\ conf_fee' = TRUE
    /\ sets' = sets + 1
    /\ UNCHANGED <<sequence, max_fee, ledger_offset, overflow_checks, wallet_alive,
                   conf_sequence, tx, fills, filled>>

\* Wallet::set_max_fee
SetMaxFee ==
    /\ wallet_alive
    /\ sets < MaxSets
    /\ \E d \in MaxFeeInputs : max_fee' = d
    /\ sets' = sets + 1
    /\ UNCHANGED <<sequence, fee, ledger_offset, overflow_checks, wallet_alive,
                   conf_sequence, conf_fee, tx, fills, filled>>

\* The wallet before any wallet operation, for the specifications that do not use it.
WalletIdle ==
    /\ sequence = from_secret
    /\ fee = NoneDrops
    /\ max_fee = DEFAULT_MAX_FEE
    /\ ledger_offset = U32(0, DEFAULT_LEDGER_OFFSET)
    /\ overflow_checks = FALSE
    /\ wallet_alive = TRUE
    /\ conf_sequence = FALSE
    /\ conf_fee = FALSE
    /\ tx = NewTransaction(NoneU32)
    /\ fills = << >>
    /\ filled = 0
    /\ sets = 0

(***************************************************************************)
(* Streaming serializer: serde-xrpl/src/ser.rs                             *)
(***************************************************************************)
MaxEntries == 3    \* entries of the object handed to the serializer

VARIABLES
    input,              \* the object to serialize: its container kind and its entries in order
    full,               \* what to_bytes(input) returned, NotRun before the call
    signing             \* what to_bytes_for_signing(input) returned, NotRun before the call

codecVars == <<input, full, signing>>

\* The rows of definitions.json (FIELDS) the model works with:
\* name -> nth, type code, isSerialized, isSigningField.
FieldNames ==
    {"Account", "Amount", "Fee", "Sequence", "SigningPubKey", "TxnSignature", "hash",
     "Memos", "Memo", "MemoData"}
FieldTable(name) ==
    CASE name = "Account" ->
            [nth |-> 1, type |-> 8, is_serialized |-> TRUE, is_signing_field |-> TRUE]
      [] name = "Amount" ->
            [nth |-> 1, type |-> 6, is_serialized |-> TRUE, is_signing_field |-> TRUE]
      [] name = "Fee" ->
            [nth |-> 8, type |-> 6, is_serialized |-> TRUE, is_signing_field |-> TRUE]
      [] name = "Sequence" ->
            [nth |-> 4, type |-> 2, is_serialized |-> TRUE, is_signing_field |-> TRUE]
      [] name = "SigningPubKey" ->
            [nth |-> 3, type |-> 7, is_serialized |-> TRUE, is_signing_field |-> TRUE]
      [] name = "TxnSignature" ->
            [nth |-> 4, type |-> 7, is_serialized |-> TRUE, is_signing_field |-> FALSE]
      [] name = "hash" ->
            [nth |-> 257, type |-> 5, is_serialized |-> FALSE, is_signing_field |-> FALSE]
      [] name = "Memos" ->
            [nth |-> 9, type |-> 15, is_serialized |-> TRUE, is_signing_field |-> TRUE]
      [] name = "Memo" ->
            [nth |-> 10, type |-> 14, is_serialized |-> TRUE, is_signing_field |-> TRUE]
      [] name = "MemoData" ->
            [nth |-> 13, type |-> 7, is_serialized |-> TRUE, is_signing_field |-> TRUE]

\* is_signing_field(name).unwrap_or_default()
is_signing_field(name) == name \in FieldNames /\ FieldTable(name).is_signing_field

\* is_serialized_field(name).unwrap_or_default()
is_serialized_field(name) == name \in FieldNames /\ FieldTable(name).is_serialized

MaxMemos == 2      \* elements of a Memos array

\* The values an entry can hold: null, or what the field's type takes (a number, a
\* string of the given form, the {currency, issuer, value} map of an issued amount,
\* or an array of len objects {"Memo": {"MemoData": hex}}).
Null == [kind |-> "null", form |-> "", len |-> 0]
ValuesOf(name) ==
    {Null} \cup
    CASE name = "Account" -> {[kind |-> "str", form |-> "address", len |-> 0]}
      [] name \in {"Amount", "Fee"} -> {[kind |-> "str", form |-> "digits", len |-> 0],
                             [kind |-> "issued", form |-> "", len |-> 0]}
      [] name = "Sequence" -> {[kind |-> "u32", form |-> "", len |-> 0]}
      [] name = "Memos" -> {[kind |-> "array", form |-> "", len |-> n] : n \in 1..MaxMemos}
      [] OTHER -> {[kind |-> "str", form |-> "hex", len |-> 0]}

\* The names that are keys of the object itself (Memo and MemoData are keys of
\* the elements of Memos; Fee is a key of the objects of IssuedInputs only), and
\* one name the registry does not contain.
\* A key that is no row of definitions.json.
UnknownName == "NotAField"
TopLevelNames == (FieldNames \ {"Memo", "MemoData", "Fee"}) \cup {UnknownName}
Entries == UNION {{[key |-> k, value |-> v] : v \in ValuesOf(k)} : k \in TopLevelNames}
EntryLists ==
    UNION {{es \in [1..n -> Entries] : \A i, j \in 1..n : es[i].key = es[j].key => i = j} :
            n \in 0..MaxEntries}
Inputs == {[container |-> c, entries |-> es] : c \in {"map", "struct"}, es \in EntryLists}

\* Serializer.field: None, or the pending header with the state of its sub_type.
NoField ==
    [some |-> FALSE, key |-> "", type_code |-> 0, field_code |-> 0,
     issued |-> FALSE, current_key |-> "", have |-> {}, parts |-> {}, origins |-> {}]
\* Some((FieldHeader {type_code, field_code, sub_type: None}, Value::NotPresent))
Header(name) ==
    [some |-> TRUE, key |-> name, type_code |-> FieldTable(name).type,
     field_code |-> FieldTable(name).nth,
     issued |-> FALSE, current_key |-> "", have |-> {}, parts |-> {}, origins |-> {}]

\* Serializer::default()
NewSerializer == [sequence |-> 0, field |-> NoField, fields |-> << >>, status |-> "Ok"]

\* self.fields.push((field.clone(), value.clone())); self.field = None
Push(st, data, form, origins) ==
    [st EXCEPT !.fields = Append(@, [key |-> st.field.key, type_code |-> st.field.type_code,
                                     field_code |-> st.field.field_code, data |-> data,
                                     form |-> form, parts |-> st.field.parts,
                                     origins |-> origins]),
               !.field = NoField]

\* An issued amount emitted as soon as two of its sub-keys have been seen.
IssuedCompleteAtTwo(have) == Cardinality(have) >= 2

\* value.is_some() && currency.is_some() && issuer.is_some()
IssuedComplete(have) == have = {"value", "currency", "issuer"}

\* ser::Serializer::serialize_str.  The registry rows above have no field of
\* type 19 (Vector256), the one type whose branch counts self.sequence.
serialize_str(st, form, origin) ==
    IF st.status # "Ok" \/ ~st.field.some THEN st
    ELSE CASE st.field.type_code \in {5, 7, 8} ->
                Push(st, CASE st.field.type_code = 5 -> "Hash256"
                           [] st.field.type_code = 7 -> "Blob"
                           [] st.field.type_code = 8 -> "AccountID",
                     form, {origin})
           [] st.field.type_code = 6 /\ ~st.field.issued ->
                IF form = "digits" THEN Push(st, "Amount", form, {origin})
                ELSE [st EXCEPT !.status = "Err"]
           [] st.field.type_code = 6 /\ st.field.issued ->
                LET known == st.field.current_key \in {"value", "currency", "issuer"}
                    f == [st.field EXCEPT
                            !.have = IF known THEN @ \cup {st.field.current_key} ELSE @,
                            !.parts = IF known THEN @ \cup {<<st.field.current_key, form>>}
                                      ELSE @,
                            !.origins = IF known THEN @ \cup {origin} ELSE @]
                IN IF IssuedComplete(f.have)
                       THEN Push([st EXCEPT !.field = f], "Amount", "issued", f.origins)
                   ELSE [st EXCEPT !.field = f]
           [] st.field.type_code = 1 ->
                IF form = "txtype" THEN Push(st, "Transaction", form, {origin})
                ELSE [st EXCEPT !.status = "Err"]
           [] st.field.type_code = 3 ->
                IF form = "digits" THEN Push(st, "UInt64", form, {origin})
                ELSE [st EXCEPT !.status = "Err"]
           [] OTHER -> [st EXCEPT !.status = "Panic"]

\* ser::Serializer::serialize_u32
serialize_u32(st, origin) ==
    IF st.status # "Ok" \/ ~st.field.some THEN st
    ELSE IF st.field.type_code \in {16, 1, 2, 4} THEN Push(st, "UInt", "", {origin})
    ELSE [st EXCEPT !.status = "Panic"]

\* ser::Serializer::serialize_unit (serialize_none calls it): nothing, the
\* pending header included, changes.
serialize_unit(st) == st

\* ser::SerializeMap::serialize_key
serialize_key(st, key, signing_fields_only) ==
    IF st.status # "Ok" THEN st
    ELSE IF st.field.some /\ st.field.type_code = 6
        THEN [st EXCEPT !.field.issued = TRUE, !.field.current_key = key]
    ELSE IF is_serialized_field(key)
        THEN IF signing_fields_only /\ ~is_signing_field(key) THEN st
             ELSE [st EXCEPT !.field = Header(key)]
    ELSE [st EXCEPT !.field = NoField]

\* The string a sub-key of an issued amount holds.
SubKeyForm(k) ==
    CASE k = "currency" -> "currency" [] k = "issuer" -> "address" [] k = "value" -> "decimal"

\* The six orders in which a map can hand over the three sub-keys; "" is the
\* order of serde_json's Map, which is sorted by key.
SubKeyOrders == {"civ", "cvi", "icv", "ivc", "vci", "vic"}
SubKeyOrder(form) ==
    CASE form = "cvi" -> <<"currency", "value", "issuer">>
      [] form = "icv" -> <<"issuer", "currency", "value">>
      [] form = "ivc" -> <<"issuer", "value", "currency">>
      [] form = "vci" -> <<"value", "currency", "issuer">>
      [] form = "vic" -> <<"value", "issuer", "currency">>
      [] OTHER -> <<"currency", "issuer", "value">>

\* The first n entries of the map of an issued amount, each by serialize_key and
\* serialize_value (serialize_str) on the same Serializer.
RECURSIVE serialize_sub_keys(_, _, _, _, _)
serialize_sub_keys(st, origin, keys, n, signing_fields_only) ==
    IF n = 0 THEN st
    ELSE serialize_str(serialize_key(serialize_sub_keys(st, origin, keys, n - 1,
                                                        signing_fields_only),
                                     keys[n], signing_fields_only),
                       SubKeyForm(keys[n]), origin)

\* serde_json's Map serialized through serialize_map: the entries of an issued
\* amount in key order, each by serialize_key and serialize_value.
serialize_issued(st, origin, signing_fields_only) ==
    serialize_sub_keys(st, origin, <<"currency", "issuer", "value">>, 3, signing_fields_only)

\* ser::Serializer::serialize_seq
serialize_seq(st, len) == IF st.status # "Ok" THEN st ELSE [st EXCEPT !.sequence = len]

\* ser::SerializeSeq::serialize_element for the first n elements of a Memos array:
\* each element is the map {"Memo": {"MemoData": hex}}, serialized through
\* serialize_map, serialize_key and serialize_value on the same Serializer.
RECURSIVE serialize_elements(_, _, _, _)
serialize_elements(st, origin, n, signing_fields_only) ==
    IF n = 0 THEN st
    ELSE LET s1 == serialize_elements(st, origin, n - 1, signing_fields_only)
             s2 == serialize_key(s1, "Memo", signing_fields_only)
             s3 == serialize_key(s2, "MemoData", signing_fields_only)
         IN serialize_str(s3, "hex", origin)

\* ser::SerializeMap::serialize_value / value.serialize(&mut **self)
serialize_value(st, e, signing_fields_only) ==
    CASE e.value.kind = "null" -> serialize_unit(st)
      [] e.value.kind = "str" -> serialize_str(st, e.value.form, e.key)
      [] e.value.kind = "u32" -> serialize_u32(st, e.key)
      [] e.value.kind = "issued" ->
            IF e.value.form = "" THEN serialize_issued(st, e.key, signing_fields_only)
            ELSE serialize_sub_keys(st, e.key, SubKeyOrder(e.value.form), 3,
                                    signing_fields_only)
      [] e.value.kind = "array" ->
            serialize_elements(serialize_seq(st, e.value.len), e.key, e.value.len,
                               signing_fields_only)

\* ser::SerializeStruct::serialize_field
serialize_field(st, e, signing_fields_only) ==
    IF st.status # "Ok" THEN st
    ELSE IF is_serialized_field(e.key)
        THEN serialize_value([st EXCEPT !.field = Header(e.key)], e, signing_fields_only)
    ELSE st

\* ser::SerializeStruct::end
struct_end(st) ==
    IF st.status = "Ok" /\ st.field.some
        THEN [st EXCEPT !.fields = Append(@, [key |-> st.field.key,
                                              type_code |-> st.field.type_code,
                                              field_code |-> st.field.field_code,
                                              data |-> "NotPresent", form |-> "",
                                              parts |-> st.field.parts,
                                              origins |-> {}])]
    ELSE st

\* value.serialize(&mut serializer) for the first n entries of the object.
RECURSIVE serialize_entries(_, _, _, _)
serialize_entries(container, es, n, signing_fields_only) ==
    IF n = 0 THEN NewSerializer
    ELSE LET st == serialize_entries(container, es, n - 1, signing_fields_only) IN
         IF container = "map"
             THEN serialize_value(serialize_key(st, es[n].key, signing_fields_only),
                                  es[n], signing_fields_only)
         ELSE serialize_field(st, es[n], signing_fields_only)

serialize(obj, signing_fields_only) ==
    LET st == serialize_entries(obj.container, obj.entries, Len(obj.entries),
                                signing_fields_only)
    IN IF obj.container = "struct" THEN struct_end(st) ELSE st

\* FieldHeader's derived PartialOrd: type_code, then field_code (sub_type decides
\* only between headers of equal codes).
HeaderLess(a, b) ==
    a.type_code < b.type_code \/ (a.type_code = b.type_code /\ a.field_code < b.field_code)

\* Vec::sort_by (stable) of serializer.fields by header.
InsertSorted(sorted, x) ==
    LET k == Cardinality({i \in 1..Len(sorted) : ~HeaderLess(x, sorted[i])})
    IN SubSeq(sorted, 1, k) \o <<x>> \o SubSeq(sorted, k + 1, Len(sorted))
RECURSIVE SortFields(_)
SortFields(fs) ==
    IF fs = << >> THEN << >>
    ELSE InsertSorted(SortFields(SubSeq(fs, 1, Len(fs) - 1)), fs[Len(fs)])

\* encode_field_id with the two bytes of its third case exchanged.
encode_field_id_swapped(type_code, field_code) ==
    IF type_code < 16 /\ field_code < 16 THEN <<((type_code * 16) % 256) + field_code>>
    ELSE IF type_code < 16 /\ field_code >= 16 THEN <<(type_code * 16) % 256, field_code>>
    ELSE IF type_code >= 16 /\ field_code < 16 THEN <<type_code, field_code>>
    ELSE <<0, type_code, field_code>>

\* utils::encode_field_id (u8 arithmetic: type_code << 4 | field_code)
encode_field_id(type_code, field_code) ==
    IF type_code < 16 /\ field_code < 16 THEN <<((type_code * 16) % 256) + field_code>>
    ELSE IF type_code < 16 /\ field_code >= 16 THEN <<(type_code * 16) % 256, field_code>>
    ELSE IF type_code >= 16 /\ field_code < 16 THEN <<field_code, type_code>>
    ELSE <<0, type_code, field_code>>

\* Value::to_bytes: "Ok", or how it fails on this value.
ValueToBytes(item) ==
    CASE item.data = "AccountID" -> IF item.form = "address" THEN "Ok" ELSE "Err"
      [] item.data \in {"Blob", "Hash256"} ->
            IF item.form \in {"hex", "digits"} THEN "Ok" ELSE "Panic"
      [] item.data \in {"Amount", "UInt", "UInt64", "Transaction"} -> "Ok"
      [] OTHER -> "Panic"

\* The emitted field: its header bytes, the field the header belongs to and the
\* fields whose values the value bytes were made from.
Emitted(item) ==
    [header |-> encode_field_id(item.type_code, item.field_code),
     type_code |-> item.type_code, field_code |-> item.field_code,
     header_of |-> item.key, data |-> item.data, parts |-> item.parts,
     value_of |-> item.origins]

NotRun == [status |-> "NotRun", prefix |-> "", out |-> << >>]

\* ser::to_bytes_with_opts
to_bytes_with_opts(obj, prefix, signing_fields_only) ==
    LET st == serialize(obj, signing_fields_only)
        sorted == SortFields(st.fields)
        bad == {i \in 1..Len(sorted) : ValueToBytes(sorted[i]) # "Ok"}
    IN IF st.status # "Ok" THEN [status |-> st.status, prefix |-> prefix, out |-> << >>]
       ELSE IF bad # {}
           THEN [status |-> ValueToBytes(sorted[CHOOSE i \in bad : \A j \in bad : i <= j]),
                 prefix |-> prefix, out |-> << >>]
       ELSE [status |-> "Ok", prefix |-> prefix,
             out |-> [i \in 1..Len(sorted) |-> Emitted(sorted[i])]]

\* ser::to_bytes
to_bytes(obj) == to_bytes_with_opts(obj, "", FALSE)

\* ser::to_bytes_for_signing (prefix hash_prefixes::TRANSACTION_SIG)
to_bytes_for_signing(obj) == to_bytes_with_opts(obj, "53545800", TRUE)

CodecInit ==
    /\ input \in Inputs
    /\ full = NotRun
    /\ signing = NotRun

\* Objects with an Amount whose value is an object, its three sub-keys in any of
\* the six orders, with at most one other entry before it and one after it.
IssuedNeighbours ==
    UNION {{[key |-> k, value |-> v] : v \in ValuesOf(k)} : k \in {"Fee", "Account", "Sequence"}}
NeighbourLists == {<< >>} \cup {<<e>> : e \in IssuedNeighbours}
IssuedInputs ==
    {[container |-> c,
      entries |-> b \o <<[key |-> "Amount",
                          value |-> [kind |-> "issued", form |-> o, len |-> 0]]>> \o a] :
        c \in {"map", "struct"}, o \in SubKeyOrders,
        b \in NeighbourLists,
        a \in NeighbourLists}

IssuedObjectInit ==
    /\ input \in {i \in IssuedInputs :
                    \A x, y \in 1..Len(i.entries) : i.entries[x].key = i.entries[y].key => x = y}
    /\ full = NotRun
    /\ signing = NotRun

\* The serializer before any input, for the specifications that do not use it.
CodecIdle ==
    /\ input = [container |-> "map", entries |-> << >>]
    /\ full = NotRun
    /\ signing = NotRun

ToBytes ==
    /\ full = NotRun
    /\ full' = to_bytes(input)
    /\ UNCHANGED <<input, signing>>

ToBytesForSigning ==
    /\ signing = NotRun
    /\ signing' = to_bytes_for_signing(input)
    /\ UNCHANGED <<input, full>>

(***************************************************************************)
(* Pure functions of serde-xrpl/src/utils.rs, serde-xrpl/src/types.rs and  *)
(* xrpl-rs/src/wallet/mod.rs, each applied to one argument list            *)
(***************************************************************************)
VARIABLES
    util_call,          \* the function called and its arguments
    util_ret            \* what it returned, NotReturned before the call

utilVars == <<util_call, util_ret>>

NotReturned == [status |-> "NotReturned", bytes |-> << >>]
Returned(bytes) == [status |-> "Ok", bytes |-> bytes]
Call(fn, a, b) == [fn |-> fn, a |-> a, b |-> b]

\* u8::MAX: type_code and field_code are u8.
U8Max == 255
FieldIdCalls == {Call("encode_field_id", t, f) : t \in 1..U8Max, f \in 1..U8Max}

\* One call of utils::encode_field_id.
EncodeFieldId ==
    /\ util_call.fn = "encode_field_id"
    /\ util_ret = NotReturned
    /\ util_ret' = Returned(encode_field_id(util_call.a, util_call.b))
    /\ UNCHANGED util_call

\* Largest length encode_variable_length encodes.
MaxVLLength == 918744

\* Lengths around each boundary of encode_variable_length and a stride through
\* the whole range, up to a few lengths past the largest one.
VLWindow == 300
VLStride == 97
VLLengths ==
    (0..(193 + VLWindow))
        \cup ((12480 - VLWindow)..(12481 + VLWindow))
        \cup ((MaxVLLength - VLWindow)..(MaxVLLength + VLWindow))
        \cup {k * VLStride : k \in 0..(MaxVLLength \div VLStride)}
VLCalls == {Call("encode_variable_length", l, 0) : l \in VLLengths}

\* encode_variable_length with the first boundary one too high.
encode_variable_length_193(length) ==
    IF length <= 193 THEN Returned(<<length % 256>>)
    ELSE IF length <= 12480
        THEN Returned(<<(193 + (((length - 193) \div 256) % 256)) % 256, (length - 193) % 256>>)
    ELSE IF length <= 918744
        THEN Returned(<<(241 + (((length - 12481) \div 65536) % 256)) % 256,
                        ((length - 12481) \div 256) % 256, (length - 12481) % 256>>)
    ELSE [status |-> "Panic", bytes |-> << >>]

\* utils::encode_variable_length: `x >> n` is x \div 2^n, `x & 0xff` and `as u8`
\* are x % 256; a length above 918744 reaches panic!("overflow error").
encode_variable_length(length) ==
    IF length <= 192 THEN Returned(<<length % 256>>)
    ELSE IF length <= 12480
        THEN Returned(<<(193 + (((length - 193) \div 256) % 256)) % 256, (length - 193) % 256>>)
    ELSE IF length <= 918744
        THEN Returned(<<(241 + (((length - 12481) \div 65536) % 256)) % 256,
                        ((length - 12481) \div 256) % 256, (length - 12481) % 256>>)
    ELSE [status |-> "Panic", bytes |-> << >>]

\* One call of utils::encode_variable_length (Value::to_bytes calls it for Blob,
\* AccountID and Vector256 with the byte length of the value and returns what it
\* returns in front of the data; a panic unwinds through to_bytes).
EncodeVariableLength ==
    /\ util_call.fn = "encode_variable_length"
    /\ util_ret = NotReturned
    /\ util_ret' = encode_variable_length(util_call.a)
    /\ UNCHANGED util_call

\* A character of a drops string: a decimal digit, or NonDigit for any other character.
NonDigit == 10
MaxShortDrops == 2
\* The strings of 2^62 - 1, 2^62, 2^63, 2^64 - 1 and 2^64, and of the 10^17 drops
\* that exist.
BoundaryDrops ==
    {<<4,6,1,1,6,8,6,0,1,8,4,2,7,3,8,7,9,0,3>>,
     <<4,6,1,1,6,8,6,0,1,8,4,2,7,3,8,7,9,0,4>>,
     <<9,2,2,3,3,7,2,0,3,6,8,5,4,7,7,5,8,0,8>>,
     <<1,8,4,4,6,7,4,4,0,7,3,7,0,9,5,5,1,6,1,5>>,
     <<1,8,4,4,6,7,4,4,0,7,3,7,0,9,5,5,1,6,1,6>>,
     <<1,0,0,0,0,0,0,0,0,0,0,0,0,0,0,0,0,0>>}
DropsStrings ==
    BoundaryDrops \cup UNION {[1..n -> 0..NonDigit] : n \in 0..MaxShortDrops}
XrpCalls == {Call("xrp_amount", v, 0) : v \in DropsStrings}

\* A u64 as four 16-bit limbs, most significant first.
U64Zero == <<0, 0, 0, 0>>
\* checked_mul(10) then checked_add(d) of u64's FromStr.
mul10_add(v, d) ==
    LET c0 == (v[4] * 10) + d
        c1 == (v[3] * 10) + (c0 \div Limb)
        c2 == (v[2] * 10) + (c1 \div Limb)
        c3 == (v[1] * 10) + (c2 \div Limb)
    IN [ok |-> c3 < Limb, v |-> <<c3 % Limb, c2 % Limb, c1 % Limb, c0 % Limb>>]

RECURSIVE parse_from(_, _, _)
parse_from(v, i, acc) ==
    IF i > Len(v) THEN [ok |-> TRUE, v |-> acc]
    ELSE IF v[i] = NonDigit THEN [ok |-> FALSE, v |-> U64Zero]
    ELSE LET r == mul10_add(acc, v[i])
         IN IF r.ok THEN parse_from(v, i + 1, r.v) ELSE [ok |-> FALSE, v |-> U64Zero]

\* v.parse::<u64>(): an empty string, a character that is no digit and a value
\* above u64::MAX are errors.
parse_u64(v) ==
    IF Len(v) = 0 THEN [ok |-> FALSE, v |-> U64Zero] ELSE parse_from(v, 1, U64Zero)

\* u64::to_be_bytes
to_be_bytes(u) ==
    <<u[1] \div 256, u[1] % 256, u[2] \div 256, u[2] % 256,
      u[3] \div 256, u[3] % 256, u[4] \div 256, u[4] % 256>>

\* amount | 0x4000000000000000
or_positive_bit(u) ==
    <<IF (u[1] \div 16384) % 2 = 1 THEN u[1] ELSE u[1] + 16384, u[2], u[3], u[4]>>

\* Amount::XRP(amount).to_bytes()
XRP_to_bytes(amount) == to_be_bytes(or_positive_bit(amount))

\* The string value of an Amount field with no sub_type: serialize_str parses it
\* and Value::to_bytes encodes Amount::XRP.
serialize_xrp_amount(v) ==
    LET i == parse_u64(v)
    IN IF i.ok THEN Returned(XRP_to_bytes(i.v))
       ELSE [status |-> "InvalidAmount", bytes |-> << >>]

\* One encoding of an XRP amount.
EncodeXrpAmount ==
    /\ util_call.fn = "xrp_amount"
    /\ util_ret = NotReturned
    /\ util_ret' = serialize_xrp_amount(util_call.a)
    /\ UNCHANGED util_call

\* A decimal value string of an issued amount, by the value it denotes:
\* digits * 10^exp10, the digits without leading or trailing zero; or zero.
MaxSigDigits == 2
IssuedZero == [digits |-> <<0>>, exp10 |-> 0]
Nines16 == [i \in 1..16 |-> 9]
Exp10s == (0 - 96)..80
Significands ==
    {Nines16} \cup
    UNION {{ds \in [1..n -> 0..9] : ds[1] # 0 /\ ds[n] # 0} : n \in 1..MaxSigDigits}
IssuedValues ==
    {IssuedZero} \cup {[digits |-> ds, exp10 |-> p] : ds \in Significands, p \in Exp10s}
IssuedCalls == {Call("encode_issued_currency_amount", v, 0) : v \in IssuedValues}

\* Decimal keeps a 96-bit integer (at most 79228162514264337593543950335) and a
\* scale of at most 28 decimal places.
FitsDecimal(v) ==
    LET k == Len(v.digits)
    IN IF v.exp10 < 0 THEN 0 - v.exp10 <= 28
       ELSE \/ k + v.exp10 <= 28
            \/ /\ k + v.exp10 = 29
               /\ k <= 2
               /\ (IF k = 1 THEN v.digits[1] * 10 ELSE (v.digits[1] * 10) + v.digits[2]) <= 79

\* decimal_amount.log10().floor()
floor_log10(v) == v.exp10 + Len(v.digits) - 1

\* decimal_amount.rescale(15 - e); decimal_amount.mantissa().to_u64(): the digits
\* followed by zeros up to 16 digits, as a u64.
rescaled_mantissa(v) ==
    parse_u64([i \in 1..16 |-> IF i <= Len(v.digits) THEN v.digits[i] ELSE 0]).v

RECURSIVE BitOr(_, _)
\* a | b
BitOr(a, b) ==
    IF a = 0 THEN b
    ELSE IF b = 0 THEN a
    ELSE (IF (a % 2) + (b % 2) > 0 THEN 1 ELSE 0) + (2 * BitOr(a \div 2, b \div 2))

IssuedPanic == [status |-> "Panic", bytes |-> << >>]
IssuedErr == [status |-> "InvalidIssuedCurrencyAmount", bytes |-> << >>]
ZeroAmount == Returned(<<128, 0, 0, 0, 0, 0, 0, 0>>)

\* The 8 amount bytes of utils::encode_issued_currency_amount, as the set of the
\* results the call can have. A string Decimal::from_str cannot hold is an error
\* when it is too large; one with more than 28 decimal places is rejected or
\* rounded, to zero or to a value below 1.
encode_issued_currency_amount(v) ==
    IF v = IssuedZero THEN {ZeroAmount}
    ELSE IF ~FitsDecimal(v)
        THEN IF v.exp10 < 0 THEN {IssuedErr, ZeroAmount, IssuedPanic} ELSE {IssuedErr}
    ELSE LET e == floor_log10(v)
         IN IF e < 0
                \* to_u32() of a negative number is None: unwrap panics
                THEN {IssuedPanic}
            ELSE IF e > 15
                \* 15 - e overflows u32: a panic with overflow checks; without them
                \* the scale wraps, rescale stops at the 96-bit limit and
                \* mantissa().to_u64() is None: unwrap panics
                THEN {IssuedPanic}
            ELSE LET m == to_be_bytes(rescaled_mantissa(v))
                     exponent_bytes == 97 + (e - 15)
                 IN {Returned([m EXCEPT
                        ![1] = BitOr(BitOr(BitOr(m[1], 128), 64), exponent_bytes \div 4),
                        ![2] = BitOr(m[2], (exponent_bytes % 4) * 64)])}

\* One call of utils::encode_issued_currency_amount.
EncodeIssuedCurrencyAmount ==
    /\ util_call.fn = "encode_issued_currency_amount"
    /\ util_ret = NotReturned
    /\ util_ret' \in encode_issued_currency_amount(util_call.a)
    /\ UNCHANGED util_call

\* A seed string: its characters ("r" and "p" are characters of the XRPL
\* alphabet, "0" is not), the number of bytes its digits decode to, and whether
\* the last four of these bytes are the checksum of the bytes before them.
MaxSecretChars == 3
MaxDecodedBytes == 6
SecretChars == {"r", "p", "0"}
RippleAlphabet == {"r", "p"}
Secrets ==
    {[chars |-> cs, bytes |-> n, checksum |-> c] :
        cs \in UNION {[1..k -> SecretChars] : k \in 0..MaxSecretChars},
        n \in 0..MaxDecodedBytes, c \in BOOLEAN}
SecretCalls == {Call("from_secret", secret, 0) : secret \in Secrets}

\* bs58::decode(secret).with_alphabet(RIPPLE).with_check(None).into_vec(): the
\* number of payload bytes, or the bs58 error.
bs58_decode_with_check(secret) ==
    IF \E i \in 1..Len(secret.chars) : secret.chars[i] \notin RippleAlphabet
        THEN [ok |-> FALSE, err |-> "InvalidCharacter", len |-> 0]
    ELSE IF secret.bytes < 4 THEN [ok |-> FALSE, err |-> "NoChecksum", len |-> 0]
    ELSE IF ~secret.checksum THEN [ok |-> FALSE, err |-> "InvalidChecksum", len |-> 0]
    ELSE [ok |-> TRUE, err |-> "", len |-> secret.bytes - 4]

SecretPanic == [status |-> "Panic", bytes |-> << >>]

\* wallet::decode_secret, which no function calls.
decode_secret(secret) ==
    LET decoded == bs58_decode_with_check(secret)
    IN IF ~decoded.ok THEN {[status |-> "InvalidSecret", bytes |-> << >>]}
       ELSE IF decoded.len < 1 THEN {SecretPanic}
       ELSE {Returned(<<decoded.len - 1>>)}

\* wallet::keypair_from_secret: the results the call can have. The decoding is
\* unwrapped; SecretKey::from_slice rejects a hash that is no valid key.
keypair_from_secret(secret) ==
    LET decoded == bs58_decode_with_check(secret)
    IN IF ~decoded.ok THEN {SecretPanic}
       ELSE IF decoded.len < 1 THEN {SecretPanic}
       ELSE {Returned(<<decoded.len - 1>>), [status |-> "Secp256k1Error", bytes |-> << >>]}

\* Wallet::from_secret: `keypair_from_secret(secret)?`, then the wallet.
wallet_from_secret(secret) == keypair_from_secret(secret)

\* One call of Wallet::from_secret.
FromSecret ==
    /\ util_call.fn = "from_secret"
    /\ util_ret = NotReturned
    /\ util_ret' \in wallet_from_secret(util_call.a)
    /\ UNCHANGED util_call

\* The pending_requests maps and the request a send_request registers: ids
\* 1..MaxInsertIds, the Senders of the calls 1..MaxInsertCalls, the new call's
\* Sender being in no entry yet.
MaxInsertIds == 3
MaxInsertCalls == 3
PendingMaps ==
    UNION {[ids -> 1..MaxInsertCalls] : ids \in SUBSET (1..MaxInsertIds)}
InsertCalls ==
    UNION {{Call("pending_requests.insert", m, [id |-> i, call |-> c]) :
                i \in 1..MaxInsertIds,
                c \in {d \in 1..MaxInsertCalls : \A k \in DOMAIN m : m[k] # d}} :
            m \in PendingMaps}

\* send_request, lines 200-202: pending_requests.insert(id, request.clone()).
PendingInsert ==
    /\ util_call.fn = "pending_requests.insert"
    /\ util_ret = NotReturned
    /\ util_ret' = Returned(MapInsert(util_call.a, util_call.b.id, util_call.b.call))
    /\ UNCHANGED util_call

\* No function of this part called, for the specifications that do not use it.
UtilsIdle ==
    /\ util_call = Call("none", 0, 0)
    /\ util_ret = NotReturned

(***************************************************************************)
(* The two mutexes of the transport, step by step:                         *)
(* xrpl-rs/src/transports.rs, send_request, subscribe and the reader task  *)
(***************************************************************************)
MaxLockFrames == 2     \* messages the reader task takes from the read stream

VARIABLE
    locks               \* positions of the tasks, owners of the two mutexes, the reader's frame

lockVars == <<locks>>

LockCallers == {"call1", "call2"}      \* send_request invocations
LockSubscribers == {"sub1"}            \* subscribe invocations
Tasks == LockCallers \cup LockSubscribers \cup {"reader"}
Free == "free"

\* The frames of the read stream: the response to a caller, an error frame
\* without an id, an event.
LockFrames == {[kind |-> "response", to |-> t] : t \in LockCallers}
                \cup {[kind |-> "error", to |-> "none"], [kind |-> "event", to |-> "none"]}
NoFrame == [kind |-> "none", to |-> "none"]

\* The positions at which a task is suspended at an await: the outbound-queue
\* send and the response-channel receive of send_request, the outbound-queue send
\* of subscribe, the socket receive and the two channel sends of the reader.
AwaitPositions == {"send", "recv", "poll", "send_response", "send_event"}

\* The positions inside a critical section, which run without suspending.
CriticalPositions == {"insert", "push", "lookup", "clone_subs"}

LocksInit ==
    locks = [pc |-> [t \in Tasks |-> IF t = "reader" THEN "poll" ELSE "start"],
             pending_owner |-> Free, subs_owner |-> Free, poisoned |-> FALSE,
             frame |-> NoFrame, frames |-> 0, registered |-> {}, delivered |-> {}]

\* The two mutexes before any task runs, for the specifications that do not use them.
LocksIdle ==
    locks = [pc |-> [t \in Tasks |-> "idle"],
             pending_owner |-> Free, subs_owner |-> Free, poisoned |-> FALSE,
             frame |-> NoFrame, frames |-> 0, registered |-> {}, delivered |-> {}]

\* The guard of send_request's `if let Ok(mut pending_requests) = ...lock()` kept
\* alive to the end of the function.
GuardAfterInsertHeld(t) == t

\* The owner of the pending_requests mutex after line 202: the guard is bound
\* inside the `if let` and dropped at the end of its block.
GuardAfterInsert(t) == Free

\* send_request, line 200: self.pending_requests.lock() returns once the mutex is free.
CallerLock(t) ==
    /\ locks.pc[t] = "start"
    /\ locks.pending_owner = Free
    /\ locks' = [locks EXCEPT !.pending_owner = t, !.pc[t] = "insert"]

\* send_request, lines 200-202: the insert (skipped when lock() is Err, the mutex
\* being poisoned) and the end of the block.
CallerInsert(t) ==
    /\ locks.pc[t] = "insert"
    /\ locks' = [locks EXCEPT
                    !.registered = IF locks.poisoned THEN @ ELSE @ \cup {t},
                    !.pending_owner = GuardAfterInsert(t),
                    !.pc[t] = "send"]

\* send_request, lines 203-206: sender.send(..).await completes.
CallerSend(t) ==
    /\ locks.pc[t] = "send"
    /\ locks' = [locks EXCEPT !.pc[t] = "recv"]

\* send_request, lines 207-219: the response arrives and the function returns,
\* dropping what it still holds.
CallerRecv(t) ==
    /\ locks.pc[t] = "recv"
    /\ t \in locks.delivered
    /\ locks' = [locks EXCEPT
                    !.pc[t] = "done",
                    !.pending_owner = IF @ = t THEN Free ELSE @]

\* subscribe, line 243: self.subscriptions.lock() returns once the mutex is free.
SubscriberLock(t) ==
    /\ locks.pc[t] = "start"
    /\ locks.subs_owner = Free
    /\ locks' = [locks EXCEPT !.subs_owner = t, !.pc[t] = "push"]

\* subscribe, lines 243-245: the push and the end of the block.
SubscriberPush(t) ==
    /\ locks.pc[t] = "push"
    /\ locks' = [locks EXCEPT !.subs_owner = Free, !.pc[t] = "send"]

\* subscribe, lines 246-250: sender.send(..).await completes and the stream is returned.
SubscriberSend(t) ==
    /\ locks.pc[t] = "send"
    /\ locks' = [locks EXCEPT !.pc[t] = "done"]

\* Reader task, lines 277-283: the read stream yields a message; a response goes
\* to the lookup, anything else to the broadcast.
ReaderTake(f) ==
    /\ locks.pc["reader"] = "poll"
    /\ locks.frames < MaxLockFrames
    /\ locks' = [locks EXCEPT
                    !.frames = @ + 1,
                    !.frame = f,
                    !.pc["reader"] = IF f.kind \in {"response", "error"}
                                     THEN "lock_pending" ELSE "lock_subs"]

\* Reader task, line 285-286: pending_requests.lock() returns once the mutex is free.
ReaderLockPending ==
    /\ locks.pc["reader"] = "lock_pending"
    /\ locks.pending_owner = Free
    /\ locks' = [locks EXCEPT !.pending_owner = "reader", !.pc["reader"] = "lookup"]

\* Reader task, lines 285-288: the closure of `.map(|p| ...)` owns the guard and
\* drops it when it returns; get_id().unwrap() panics inside it for a frame
\* without an id, which poisons the mutex and releases it while unwinding.
ReaderLookup ==
    /\ locks.pc["reader"] = "lookup"
    /\ locks' = [locks EXCEPT
                    !.pending_owner = Free,
                    !.poisoned = (locks.frame.kind = "error") \/ @,
                    !.pc["reader"] =
                        IF locks.frame.kind = "error" THEN "panicked"
                        ELSE IF locks.frame.to \in locks.registered THEN "send_response"
                        ELSE "poll"]

\* Reader task, lines 289-290: r.send(res).await.unwrap(); the send fails when
\* the call has returned and dropped its Receiver.
ReaderSendResponse ==
    /\ locks.pc["reader"] = "send_response"
    /\ locks' = [locks EXCEPT
                    !.delivered = IF locks.pc[locks.frame.to] = "done" THEN @
                                  ELSE @ \cup {locks.frame.to},
                    !.pc["reader"] = IF locks.pc[locks.frame.to] = "done"
                                     THEN "panicked" ELSE "poll"]

\* Reader task, line 294: subscriptions.lock() returns once the mutex is free.
ReaderLockSubs ==
    /\ locks.pc["reader"] = "lock_subs"
    /\ locks.subs_owner = Free
    /\ locks' = [locks EXCEPT !.subs_owner = "reader", !.pc["reader"] = "clone_subs"]

\* Reader task, line 294: `subscriptions.lock().unwrap().clone()`; the guard is a
\* temporary dropped at the end of the statement.
ReaderCloneSubs ==
    /\ locks.pc["reader"] = "clone_subs"
    /\ locks' = [locks EXCEPT !.subs_owner = Free, !.pc["reader"] = "send_event"]

\* Reader task, lines 295-300: ch.send(event).await for the subscriptions of the clone.
ReaderSendEvents ==
    /\ locks.pc["reader"] = "send_event"
    /\ locks' = [locks EXCEPT !.pc["reader"] = "poll"]


(***************************************************************************)
(* Specifications                                                          *)
(***************************************************************************)
vars == <<wsVars, walletVars, codecVars, utilVars, lockVars>>

\* The WebSocket transport with its client tasks, reader, writer and peer.
Next ==
    \/ (\E c \in Calls : SendRequestInsert(c)) /\ UNCHANGED <<walletVars, codecVars, utilVars, lockVars>>
    \/ (\E c \in Calls : SendRequestEnqueue(c)) /\ UNCHANGED <<walletVars, codecVars, utilVars, lockVars>>
    \/ (\E c \in Calls : SendRequestReceive(c)) /\ UNCHANGED <<walletVars, codecVars, utilVars, lockVars>>
    \/ (\E c \in Calls : DropCall(c)) /\ UNCHANGED <<walletVars, codecVars, utilVars, lockVars>>
    \/ (\E s \in Subs : SubscribePush(s)) /\ UNCHANGED <<walletVars, codecVars, utilVars, lockVars>>
    \/ (\E s \in Subs : SubscribeEnqueue(s)) /\ UNCHANGED <<walletVars, codecVars, utilVars, lockVars>>
    \/ (\E s \in Subs : DropStream(s)) /\ UNCHANGED <<walletVars, codecVars, utilVars, lockVars>>
    \/ (\E s \in Subs : Unsubscribe(s)) /\ UNCHANGED <<walletVars, codecVars, utilVars, lockVars>>
    \/ WriterStep /\ UNCHANGED <<walletVars, codecVars, utilVars, lockVars>>
    \/ Receive /\ UNCHANGED <<walletVars, codecVars, utilVars, lockVars>>
    \/ ReaderEnd /\ UNCHANGED <<walletVars, codecVars, utilVars, lockVars>>
    \/ PeerClose /\ UNCHANGED <<walletVars, codecVars, utilVars, lockVars>>

Init == WSInit /\ WalletIdle /\ CodecIdle /\ UtilsIdle /\ LocksIdle

Spec == Init /\ [][Next]_vars

\* One wallet, its setters and auto_fill_fields called in any order.
NextWallet ==
    \/ AutoFill /\ UNCHANGED <<wsVars, codecVars, utilVars, lockVars>>
    \/ SetSequence /\ UNCHANGED <<wsVars, codecVars, utilVars, lockVars>>
    \/ SetFee /\ UNCHANGED <<wsVars, codecVars, utilVars, lockVars>>
    \/ SetMaxFee /\ UNCHANGED <<wsVars, codecVars, utilVars, lockVars>>

InitWallet == WSInit /\ WalletInit /\ CodecIdle /\ UtilsIdle /\ LocksIdle

SpecWallet == InitWallet /\ [][NextWallet]_vars

\* One object serialized by to_bytes and by to_bytes_for_signing.
NextCodec ==
    \/ ToBytes /\ UNCHANGED <<wsVars, walletVars, utilVars, lockVars>>
    \/ ToBytesForSigning /\ UNCHANGED <<wsVars, walletVars, utilVars, lockVars>>

InitCodec == WSInit /\ WalletIdle /\ CodecInit /\ UtilsIdle /\ LocksIdle

SpecCodec == InitCodec /\ [][NextCodec]_vars

\* encode_field_id applied to every pair of a type code and a field code.
NextFieldId == EncodeFieldId /\ UNCHANGED <<wsVars, walletVars, codecVars, lockVars>>

InitFieldId ==
    /\ WSInit /\ WalletIdle /\ CodecIdle /\ LocksIdle
    /\ util_call \in FieldIdCalls
    /\ util_ret = NotReturned

SpecFieldId == InitFieldId /\ [][NextFieldId]_vars

\* encode_variable_length applied to the lengths of VLLengths.
NextVL == EncodeVariableLength /\ UNCHANGED <<wsVars, walletVars, codecVars, lockVars>>

InitVL ==
    /\ WSInit /\ WalletIdle /\ CodecIdle /\ LocksIdle
    /\ util_call \in VLCalls
    /\ util_ret = NotReturned

SpecVL == InitVL /\ [][NextVL]_vars

NextXrp == EncodeXrpAmount /\ UNCHANGED <<wsVars, walletVars, codecVars, lockVars>>

InitXrp ==
    /\ WSInit /\ WalletIdle /\ CodecIdle /\ LocksIdle
    /\ util_call \in XrpCalls
    /\ util_ret = NotReturned

SpecXrp == InitXrp /\ [][NextXrp]_vars

NextIssued == EncodeIssuedCurrencyAmount /\ UNCHANGED <<wsVars, walletVars, codecVars, lockVars>>

InitIssued ==
    /\ WSInit /\ WalletIdle /\ CodecIdle /\ LocksIdle
    /\ util_call \in IssuedCalls
    /\ util_ret = NotReturned

SpecIssued == InitIssued /\ [][NextIssued]_vars

NextSecret == FromSecret /\ UNCHANGED <<wsVars, walletVars, codecVars, lockVars>>

InitSecret ==
    /\ WSInit /\ WalletIdle /\ CodecIdle /\ LocksIdle
    /\ util_call \in SecretCalls
    /\ util_ret = NotReturned

SpecSecret == InitSecret /\ [][NextSecret]_vars

NextInsert == PendingInsert /\ UNCHANGED <<wsVars, walletVars, codecVars, lockVars>>

InitInsert ==
    /\ WSInit /\ WalletIdle /\ CodecIdle /\ LocksIdle
    /\ util_call \in InsertCalls
    /\ util_ret = NotReturned

SpecInsert == InitInsert /\ [][NextInsert]_vars

\* Two send_request invocations, one subscribe invocation and the reader task,
\* interleaved at every lock, unlock and await.
NextLocks ==
    \/ (\E t \in LockCallers : CallerLock(t)) /\ UNCHANGED <<wsVars, walletVars, codecVars, utilVars>>
    \/ (\E t \in LockCallers : CallerInsert(t)) /\ UNCHANGED <<wsVars, walletVars, codecVars, utilVars>>
    \/ (\E t \in LockCallers : CallerSend(t)) /\ UNCHANGED <<wsVars, walletVars, codecVars, utilVars>>
    \/ (\E t \in LockCallers : CallerRecv(t)) /\ UNCHANGED <<wsVars, walletVars, codecVars, utilVars>>
    \/ (\E t \in LockSubscribers : SubscriberLock(t)) /\ UNCHANGED <<wsVars, walletVars, codecVars, utilVars>>
    \/ (\E t \in LockSubscribers : SubscriberPush(t)) /\ UNCHANGED <<wsVars, walletVars, codecVars, utilVars>>
    \/ (\E t \in LockSubscribers : SubscriberSend(t)) /\ UNCHANGED <<wsVars, walletVars, codecVars, utilVars>>
    \/ (\E f \in LockFrames : ReaderTake(f)) /\ UNCHANGED <<wsVars, walletVars, codecVars, utilVars>>
    \/ ReaderLockPending /\ UNCHANGED <<wsVars, walletVars, codecVars, utilVars>>
    \/ ReaderLookup /\ UNCHANGED <<wsVars, walletVars, codecVars, utilVars>>
    \/ ReaderSendResponse /\ UNCHANGED <<wsVars, walletVars, codecVars, utilVars>>
    \/ ReaderLockSubs /\ UNCHANGED <<wsVars, walletVars, codecVars, utilVars>>
    \/ ReaderCloneSubs /\ UNCHANGED <<wsVars, walletVars, codecVars, utilVars>>
    \/ ReaderSendEvents /\ UNCHANGED <<wsVars, walletVars, codecVars, utilVars>>

InitLocks == WSInit /\ WalletIdle /\ CodecIdle /\ UtilsIdle /\ LocksInit

SpecLocks == InitLocks /\ [][NextLocks]_vars

\* One object with an issued Amount serialized by to_bytes and by to_bytes_for_signing.
NextIssuedObject ==
    \/ ToBytes /\ UNCHANGED <<wsVars, walletVars, utilVars, lockVars>>
    \/ ToBytesForSigning /\ UNCHANGED <<wsVars, walletVars, utilVars, lockVars>>

InitIssuedObject == WSInit /\ WalletIdle /\ IssuedObjectInit /\ UtilsIdle /\ LocksIdle

SpecIssuedObject == InitIssuedObject /\ [][NextIssuedObject]_vars

(***************************************************************************)
(* Claims about the WebSocket transport                                    *)
(***************************************************************************)

\* C1: a send_request that returns a response frame returns the frame whose id
\* is the id it sent; no frame carrying another call's id is ever put on its
\* response channel, whatever the order in which the peer answers.
C1_OwnResponse ==
    \A c \in Calls :
        /\ \A i \in 1..Len(response[c]) : response[c][i].id = call_id[c]
        /\ (call_pc[c] = "done" /\ call_result[c].kind = "response")
              => call_result[c].id = call_id[c]

\* C1 witness: two calls were in flight together (call 1 started first), the
\* peer answered call 2 before call 1, and both have returned.
C1_Witness ==
    /\ call_pc[1] = "done" /\ call_pc[2] = "done"
    /\ call_result[1].kind = "response" /\ call_result[2].kind = "response"
    /\ call_result[2].n < call_result[1].n

\* C2 (as claimed): once the reader task is gone (the connection was closed by
\* the peer or a read error), no send_request is left waiting on a response
\* channel that nothing will ever complete.
C2_NoCallWaitsAfterClose ==
    (reader \in {"ended", "panicked"})
        => \A c \in Calls : call_pc[c] = "waiting" => response[c] # << >>

\* C3 (as claimed): at most one frame is ever put on a call's response channel.
C3_AtMostOneFrame == \A c \in Calls : Len(response[c]) <= 1

\* C4: the ids drawn from the shared counter start at 1 and each is strictly
\* greater than every id drawn before it; no two requests share an id.
C4_StrictlyIncreasingIds ==
    /\ \A i \in 1..Len(assigned) : \A j \in 1..Len(assigned) :
          i < j => assigned[i] < assigned[j]
    /\ Len(assigned) > 0 => assigned[1] = 1
    /\ \A a, b \in Calls : (a # b /\ call_id[a] # NoId) => call_id[a] # call_id[b]
    /\ \A a, b \in Subs : (a # b /\ sub_id[a] # NoId) => sub_id[a] # sub_id[b]
    /\ \A c \in Calls, s \in Subs : call_id[c] # NoId => call_id[c] # sub_id[s]

\* C4 witness: a send_request and a subscribe have both drawn an id.
C4_Witness == call_id[1] # NoId /\ sub_id[1] # NoId /\ Len(assigned) = 2

\* The frames behind the items of a subscription channel.
FramesOf(items) == [i \in 1..Len(items) |-> items[i].frame]

\* C5 (as claimed): for every active subscription the items delivered on its
\* channel are the non-call frames read from the socket since it subscribed,
\* each once and in the order of the socket.
C5_EveryNonCallFrameDelivered ==
    \A s \in Subs :
        (s \in Range(subscriptions) /\ stream_open[s])
            => FramesOf(events[s]) = arrived[s]

\* C6 (as claimed): every unsubscribe invocation has put an unsubscribe request
\* on the outbound queue (from where the writer sends it on the socket).
C6_UnsubscribeEnqueued ==
    \A i \in 1..Len(unsub_calls) :
        \E j \in 1..Len(written \o outbound) :
            (written \o outbound)[j].command = "unsubscribe"

(***************************************************************************)
(* Claims about the wallet autofill                                        *)
(***************************************************************************)
Issued(h, req) == \E k \in 1..Len(h.requests) : h.requests[k] = req

\* The call got as far as assigning tx.fee.
ReachedFeeCheck(h) == h.step \in {"fee_check", "ledger", "done"}

\* The sequence a call starts from: the stored one, else the one account_info returned.
StartSequence(h) == IF h.pre_sequence.some THEN h.pre_sequence.val ELSE h.account_info.sequence

\* C7 (as claimed): every successful autofill assigns the wallet's current local
\* sequence (the configured one, or the one account_info returned) to tx.sequence
\* and leaves the local counter at that value plus 1, so that successive
\* autofills assign consecutive, strictly increasing sequence numbers.
C7_ConsecutiveSequences ==
    /\ \A i \in 1..Len(fills) :
        fills[i].result = "Ok" =>
            /\ fills[i].tx_sequence = StartSequence(fills[i])
            /\ fills[i].post_sequence.some
            /\ IsSuccessor(fills[i].tx_sequence, fills[i].post_sequence.val)
    /\ \A i \in 1..(Len(fills) - 1) :
        (/\ fills[i].result = "Ok"
         /\ fills[i + 1].result = "Ok"
         /\ fills[i + 1].pre_sequence = fills[i].post_sequence)
            => /\ IsSuccessor(fills[i].tx_sequence, fills[i + 1].tx_sequence)
               /\ U32Less(fills[i].tx_sequence, fills[i + 1].tx_sequence)

\* The same for the calls that start below u32::MAX: there the assignment and the
\* increment are as C7 describes.
SequenceAdvancesBelowMax ==
    \A i \in 1..Len(fills) :
        (fills[i].result = "Ok" /\ StartSequence(fills[i]) # U32Max) =>
            /\ fills[i].tx_sequence = StartSequence(fills[i])
            /\ IsSuccessor(fills[i].tx_sequence, fills[i].post_sequence.val)

\* A successful autofill that started from u32::MAX.
SequenceWrapped ==
    \E i \in 1..Len(fills) :
        fills[i].result = "Ok" /\ fills[i].tx_sequence = U32Max

\* The fee the caller configured or the ledger returned is above max_fee.
FeeKnownAboveMax(h) ==
    \/ h.pre_fee.some /\ h.pre_fee.val > h.max_fee
    \/ ~h.pre_fee.some /\ h.post_fee.some /\ h.post_fee.val > h.max_fee

\* C8 (as claimed): auto_fill_fields returns Ok only if the fee it assigned is at
\* most max_fee, and whenever the configured or fetched fee is above max_fee it
\* returns FeeAboveMax.
C8_FeeAboveMaxAlways ==
    \A i \in 1..Len(fills) :
        /\ fills[i].result = "Ok" => fills[i].tx_fee <= fills[i].max_fee
        /\ FeeKnownAboveMax(fills[i]) => fills[i].result = "FeeAboveMax"

\* C8 (amended): auto_fill_fields returns Ok only if the fee it assigned is at
\* most max_fee, and every call that gets as far as assigning a fee above max_fee
\* returns FeeAboveMax; a call that fails before (its account_info request
\* failed, or the sequence increment overflowed) returns that failure instead.
C8_FeeWithinMaxOrRejected ==
    \A i \in 1..Len(fills) :
        /\ fills[i].result = "Ok" =>
            /\ fills[i].post_fee.some
            /\ fills[i].tx_fee = fills[i].post_fee.val
            /\ fills[i].tx_fee <= fills[i].max_fee
        /\ (ReachedFeeCheck(fills[i]) /\ fills[i].tx_fee > fills[i].max_fee)
            => fills[i].result = "FeeAboveMax"
        /\ (FeeKnownAboveMax(fills[i]) /\ fills[i].result # "FeeAboveMax")
            => fills[i].step \in {"account_info", "sequence"}

\* One call was refused with FeeAboveMax and another, under a max_fee the caller
\* set, succeeded.
C8_Witness ==
    \E i, j \in 1..Len(fills) :
        /\ fills[i].result = "FeeAboveMax"
        /\ fills[j].result = "Ok"
        /\ fills[j].max_fee # DEFAULT_MAX_FEE

\* C9 (as claimed): every successful autofill on a wallet whose caller configured
\* neither fee nor sequence sends an account_info and a fee request, the second
\* and later calls included.
C9_RefetchEveryCall ==
    \A i \in 1..Len(fills) :
        (~fills[i].conf_sequence /\ ~fills[i].conf_fee /\ fills[i].result = "Ok")
            => Issued(fills[i], "account_info") /\ Issued(fills[i], "fee")

\* C9 (amended): an autofill call sends account_info exactly when the wallet holds
\* no sequence at the start of the call, and fee exactly when it holds no fee and
\* the call gets past the sequence step; what a call fetched stays in the wallet,
\* and a call that finds a stored sequence or fee uses it.
C9_FetchOnlyWhenMissing ==
    \A i \in 1..Len(fills) :
        /\ Issued(fills[i], "account_info") <=> ~fills[i].pre_sequence.some
        /\ Issued(fills[i], "fee")
            <=> (~fills[i].pre_fee.some /\ fills[i].step \notin {"account_info", "sequence"})
        /\ (fills[i].pre_sequence.some /\ fills[i].result = "Ok")
            => fills[i].tx_sequence = fills[i].pre_sequence.val
        /\ (fills[i].pre_fee.some /\ ReachedFeeCheck(fills[i]))
            => fills[i].tx_fee = fills[i].pre_fee.val
        /\ (Issued(fills[i], "account_info") /\ fills[i].account_info.ok)
            => fills[i].post_sequence.some
        /\ fills[i].result = "Ok" => fills[i].post_fee.some

\* A first call that fetched sequence and fee, then a second successful call on
\* the same unconfigured wallet that sent only the ledger request.
C9_Witness ==
    /\ Len(fills) = 2
    /\ ~fills[2].conf_sequence /\ ~fills[2].conf_fee
    /\ fills[1].result = "Ok" /\ fills[2].result = "Ok"
    /\ Issued(fills[1], "account_info") /\ Issued(fills[1], "fee")
    /\ fills[2].requests = <<"ledger">>

(***************************************************************************)
(* Claims about the serializer                                             *)
(***************************************************************************)
\* C10 (as claimed): for every input object, null-valued fields and typed structs
\* included, the output of to_bytes_for_signing has no header and no value bytes
\* that come from a field whose registry row has is_signing_field = false.
C10_SigningOutputHasNoNonSigningField ==
    signing.status = "Ok" =>
        \A i \in 1..Len(signing.out) :
            /\ is_signing_field(signing.out[i].header_of)
            /\ \A o \in signing.out[i].value_of : is_signing_field(o)

\* The same for the inputs the filter of serialize_key handles: a map with no
\* null-valued entry.
SigningFilterOnPlainMaps ==
    (/\ signing.status = "Ok"
     /\ input.container = "map"
     /\ \A i \in 1..Len(input.entries) : input.entries[i].value.kind # "null")
        => \A i \in 1..Len(signing.out) :
            /\ is_signing_field(signing.out[i].header_of)
            /\ \A o \in signing.out[i].value_of : is_signing_field(o)

\* A plain map with a TxnSignature was serialized for signing and for submission:
\* the signature is in the full output only.
SigningFilterApplied ==
    /\ input.container = "map"
    /\ signing.status = "Ok" /\ full.status = "Ok"
    /\ Len(signing.out) > 0
    /\ \E i \in 1..Len(full.out) : full.out[i].header_of = "TxnSignature"
    /\ \A i \in 1..Len(signing.out) : signing.out[i].header_of # "TxnSignature"

\* C11 (as claimed): in the output of every encode call that returns bytes the
\* emitted fields are in strictly increasing (type_code, field_code) order, so no
\* two share a pair and sorting the list again changes nothing; objects holding
\* arrays of objects included.
C11_StrictlyIncreasingFields ==
    \A r \in {full, signing} :
        r.status = "Ok" =>
            /\ \A i, j \in 1..Len(r.out) : i < j => HeaderLess(r.out[i], r.out[j])
            /\ SortFields(r.out) = r.out

\* The same without the array inputs: an object whose values are scalars, nulls
\* or issued amounts is emitted in strictly increasing order.
SortedWithoutArrays ==
    (\A i \in 1..Len(input.entries) : input.entries[i].value.kind # "array") =>
        \A r \in {full, signing} :
            r.status = "Ok" =>
                /\ \A i, j \in 1..Len(r.out) : i < j => HeaderLess(r.out[i], r.out[j])
                /\ SortFields(r.out) = r.out

\* An input given out of canonical order was emitted in canonical order.
SortedOutputOfUnsortedInput ==
    /\ full.status = "Ok"
    /\ Len(full.out) = 3
    /\ Len(input.entries) = 3
    /\ HeaderLess(Header(input.entries[3].key), Header(input.entries[1].key))

\* to_bytes of the object that holds only the i-th entry of obj.
EncodedAlone(obj, i) == to_bytes([container |-> obj.container, entries |-> <<obj.entries[i]>>])

\* The outputs of the first n entries of obj, each encoded alone, one after the other.
RECURSIVE ConcatAlone(_, _)
ConcatAlone(obj, n) ==
    IF n = 0 THEN << >> ELSE ConcatAlone(obj, n - 1) \o EncodedAlone(obj, n).out

Orders(n) == {p \in [1..n -> 1..n] : \A i, j \in 1..n : p[i] = p[j] => i = j}
Permuted(obj, p) == [obj EXCEPT !.entries = [i \in 1..Len(obj.entries) |-> obj.entries[p[i]]]]

ConcatenationLaw(obj, result) ==
    /\ \A i \in 1..Len(obj.entries) : EncodedAlone(obj, i).status = "Ok"
    /\ result.out = SortFields(ConcatAlone(obj, Len(obj.entries)))
    /\ \A p \in Orders(Len(obj.entries)) : to_bytes(Permuted(obj, p)) = result

\* C12 (as claimed): for every object, to_bytes(object) is the concatenation in
\* canonical order of header and value bytes of each of its fields encoded alone,
\* and it is the same for every order of the fields in the input.
C12_ConcatenationOfFields == full.status = "Ok" => ConcatenationLaw(input, full)

\* The same for the objects none of whose values is null.
ConcatenationWithoutNulls ==
    (/\ full.status = "Ok"
     /\ \A i \in 1..Len(input.entries) : input.entries[i].value.kind # "null")
        => ConcatenationLaw(input, full)

\* An object of three valued fields, given out of canonical order, was encoded.
ConcatenationOfThree ==
    /\ full.status = "Ok"
    /\ Len(full.out) = 3
    /\ \A i \in 1..Len(input.entries) : input.entries[i].value.kind # "null"
    /\ HeaderLess(Header(input.entries[2].key), Header(input.entries[1].key))

(***************************************************************************)
(* Claims about the pure functions                                         *)
(***************************************************************************)
\* C13: for every type code T and field code F in 1..255, encode_field_id(T, F)
\* is [(T<<4)|F] when T<16 and F<16, [T<<4, F] when T<16 and F>=16, [F, T] when
\* T>=16 and F<16, and [0, T, F] when both are 16 or more; (7, 13) gives 0x7D.
C13_FieldIdTable ==
    (util_call.fn = "encode_field_id" /\ util_ret # NotReturned) =>
        LET T == util_call.a
            F == util_call.b
        IN /\ util_ret.status = "Ok"
           /\ (T < 16 /\ F < 16) => util_ret.bytes = <<T * 16 + F>>
           /\ (T < 16 /\ F >= 16) => util_ret.bytes = <<T * 16, F>>
           /\ (T >= 16 /\ F < 16) => util_ret.bytes = <<F, T>>
           /\ (T >= 16 /\ F >= 16) => util_ret.bytes = <<0, T, F>>
           /\ (T = 7 /\ F = 13) => util_ret.bytes = <<125>>
           /\ \A i \in 1..Len(util_ret.bytes) : util_ret.bytes[i] \in 0..U8Max

\* encode_field_id(17, 3) has returned: a type code of 16 or more with a field
\* code below 16.
C13_Witness ==
    /\ util_call = Call("encode_field_id", 17, 3)
    /\ util_ret = Returned(<<3, 17>>)

\* The length a prefix stands for by the XRPL rule.
DecodeVL(b) ==
    IF Len(b) = 1 THEN b[1]
    ELSE IF Len(b) = 2 THEN 193 + (b[1] - 193) * 256 + b[2]
    ELSE 12481 + (b[1] - 241) * 65536 + b[2] * 256 + b[3]

\* The first byte tells the number of bytes of a prefix.
PrefixLength(b) == IF b[1] <= 192 THEN 1 ELSE IF b[1] <= 240 THEN 2 ELSE 3

\* C14: for every length L in 0..918744 encode_variable_length(L) has 1 byte when
\* L <= 192, 2 bytes when 193 <= L <= 12480 and 3 bytes when 12481 <= L, decoding
\* it gives L again, 12480 gives [0xF0, 0xFF] and 12481 gives [0xF1, 0x00, 0x00].
C14_VLRoundTrip ==
    (/\ util_call.fn = "encode_variable_length"
     /\ util_call.a <= MaxVLLength
     /\ util_ret # NotReturned)
        => LET L == util_call.a
               b == util_ret.bytes
           IN /\ util_ret.status = "Ok"
              /\ Len(b) = (IF L <= 192 THEN 1 ELSE IF L <= 12480 THEN 2 ELSE 3)
              /\ \A i \in 1..Len(b) : b[i] \in 0..U8Max
              /\ PrefixLength(b) = Len(b)
              /\ DecodeVL(b) = L
              /\ L = 12480 => b = <<240, 255>>
              /\ L = 12481 => b = <<241, 0, 0>>

\* The largest length has been encoded, in three bytes.
C14_Witness ==
    /\ util_call = Call("encode_variable_length", MaxVLLength, 0)
    /\ util_ret.status = "Ok"
    /\ Len(util_ret.bytes) = 3

\* C15 (as claimed): encoding a value of more than 918744 bytes ends with the
\* LengthOverflow error returned as an error value, and no bytes are returned.
C15_OverflowIsAnErrorValue ==
    (/\ util_call.fn = "encode_variable_length"
     /\ util_call.a > MaxVLLength
     /\ util_ret # NotReturned)
        => util_ret.status = "Err" /\ util_ret.bytes = << >>

\* C16 (as claimed): every 8-byte XRP amount emitted for an accepted drops string
\* has bit 63 equal to 0 and bit 62 equal to 1, and its low 62 bits are the drops
\* value of the string.
C16_XrpAmountBits ==
    (util_call.fn = "xrp_amount" /\ util_ret.status = "Ok")
        => LET b == util_ret.bytes
               drops == to_be_bytes(parse_u64(util_call.a).v)
           IN /\ Len(b) = 8
              /\ b[1] \div 64 = 1
              /\ [b EXCEPT ![1] = b[1] % 64] = drops

\* The same for the drops strings whose value is below 2^62.
XrpAmountBitsBelow62 ==
    (/\ util_call.fn = "xrp_amount"
     /\ util_ret.status = "Ok"
     /\ parse_u64(util_call.a).v[1] < 16384)
        => LET b == util_ret.bytes
           IN /\ b[1] \div 64 = 1
              /\ [b EXCEPT ![1] = b[1] % 64] = to_be_bytes(parse_u64(util_call.a).v)

\* 2^62 drops have been emitted as 0x4000000000000000.
XrpAmountOf2Pow62 ==
    /\ util_call.fn = "xrp_amount"
    /\ util_call.a = <<4,6,1,1,6,8,6,0,1,8,4,2,7,3,8,7,9,0,4>>
    /\ util_ret = Returned(<<64, 0, 0, 0, 0, 0, 0, 0>>)

\* The u64 of 8 big-endian bytes, as limbs, and the order of u64 values.
LimbsOf(b) ==
    <<(b[1] * 256) + b[2], (b[3] * 256) + b[4], (b[5] * 256) + b[6], (b[7] * 256) + b[8]>>
U64LessEq(x, y) ==
    \/ x = y
    \/ \E i \in 1..4 : x[i] < y[i] /\ \A j \in 1..(i - 1) : x[j] = y[j]

\* The mantissa field (low 54 bits) and the exponent field (bits 54..61).
MantissaField(b) == LimbsOf([b EXCEPT ![1] = 0, ![2] = b[2] % 64])
ExponentField(b) == ((b[1] % 64) * 4) + (b[2] \div 64)
Pow10_15 == parse_u64(<<1, 0, 0, 0, 0, 0, 0, 0, 0, 0, 0, 0, 0, 0, 0, 0>>).v
Pow10_16_Minus1 == parse_u64(Nines16).v

IssuedBitsOf(v, ret) ==
    /\ ret.status = "Ok"
    /\ Len(ret.bytes) = 8
    /\ U64LessEq(Pow10_15, MantissaField(ret.bytes))
    /\ U64LessEq(MantissaField(ret.bytes), Pow10_16_Minus1)
    /\ ExponentField(ret.bytes) = floor_log10(v) - 15 + 97
    /\ ret.bytes[1] \div 64 = 3

\* C17 (as claimed): for every non-zero positive value from 1e-96 to
\* 9.999999999999999e80 the 8 amount bytes have a mantissa field in
\* [10^15, 10^16 - 1], the exponent field floor(log10(value)) - 15 + 97 and the two
\* top bits set; for zero they are 0x8000000000000000.
C17_IssuedAmountBits ==
    (util_call.fn = "encode_issued_currency_amount" /\ util_ret # NotReturned)
        => IF util_call.a = IssuedZero THEN util_ret = ZeroAmount
           ELSE IssuedBitsOf(util_call.a, util_ret)

\* The same for the values from 1 to below 10^16, and for zero.
IssuedAmountBitsFrom1 ==
    (/\ util_call.fn = "encode_issued_currency_amount"
     /\ util_ret # NotReturned
     /\ \/ util_call.a = IssuedZero
        \/ floor_log10(util_call.a) \in 0..15)
        => IF util_call.a = IssuedZero THEN util_ret = ZeroAmount
           ELSE IssuedBitsOf(util_call.a, util_ret)

\* The value 0.5 has ended the call with a panic.
IssuedHalfPanics ==
    /\ util_call = Call("encode_issued_currency_amount", [digits |-> <<5>>, exp10 |-> 0 - 1], 0)
    /\ util_ret = IssuedPanic

\* The value 1 has been encoded as 0xD4838D7EA4C68000.
IssuedOneEncoded ==
    /\ util_call = Call("encode_issued_currency_amount", [digits |-> <<1>>, exp10 |-> 0], 0)
    /\ util_ret = Returned(<<212, 131, 141, 126, 164, 198, 128, 0>>)

\* The input object has a key the registry does not contain.
HasUnknownField == \E i \in 1..Len(input.entries) : input.entries[i].key \notin FieldNames

\* C18 (as claimed): an encode call of an object with a field name the registry
\* does not contain fails with the UnknownField error and returns no bytes.
C18_UnknownFieldIsAnError ==
    /\ (HasUnknownField /\ full # NotRun)
            => full.status = "UnknownFieldName" /\ full.out = << >>
    /\ (HasUnknownField /\ signing # NotRun)
            => signing.status = "UnknownFieldName" /\ signing.out = << >>

\* What the code does with such a key: the call never fails with that error.
UnknownFieldNeverReported ==
    /\ full.status # "UnknownFieldName"
    /\ signing.status # "UnknownFieldName"

\* An object with an unknown key and a known one has been encoded, to the bytes of
\* the known field alone.
UnknownFieldDropped ==
    /\ HasUnknownField
    /\ full.status = "Ok"
    /\ Len(full.out) = 1
    /\ full.out[1].header_of = "Account"

\* The seed string fails base58 decoding or fails the checksum.
BadSecret(secret) ==
    bs58_decode_with_check(secret).err \in {"InvalidCharacter", "NoChecksum", "InvalidChecksum"}

\* C19 (as claimed): Wallet::from_secret of a seed string that fails base58
\* decoding or the 4-byte checksum returns the InvalidSecret error as a value.
C19_InvalidSecretReturned ==
    (/\ util_call.fn = "from_secret"
     /\ util_ret # NotReturned
     /\ BadSecret(util_call.a))
        => util_ret.status = "InvalidSecret"

\* What the code does: from_secret never returns InvalidSecret.
InvalidSecretNeverReturned ==
    util_call.fn = "from_secret" => util_ret.status # "InvalidSecret"

\* A seed of alphabet characters with a wrong checksum has ended the call with a panic.
BadChecksumPanics ==
    /\ util_call.fn = "from_secret"
    /\ bs58_decode_with_check(util_call.a).err = "InvalidChecksum"
    /\ util_ret = SecretPanic

\* The reader has put a response frame on the call's channel.
Answered(c) == response[c] # << >> \/ call_result[c].kind = "response"

\* C20 (as claimed): the reader removes a call's id from the pending requests when
\* it dispatches the response, so the map holds exactly the ids of the calls sent
\* and not yet answered.
C20_PendingHoldsUnanswered ==
    /\ \A c \in Calls : Answered(c) => call_id[c] \notin DOMAIN pending_requests
    /\ \A id \in DOMAIN pending_requests :
            \E c \in Calls : call_id[c] = id /\ call_pc[c] # "idle" /\ ~Answered(c)

\* What the code does: no step removes an id from the pending requests.
PendingNeverShrinks ==
    [][DOMAIN pending_requests \subseteq DOMAIN pending_requests']_vars

\* Every call made has returned its response, and its id is still pending.
AnsweredStillPending ==
    /\ \A c \in Calls : call_pc[c] = "done" /\ call_result[c].kind = "response"
    /\ DOMAIN pending_requests = {call_id[c] : c \in Calls}

\* The reader handles, in this step, the response frame for the id of call c.
ReadsResponseOf(c) == ReaderStep(Frame("response", call_id[c], received + 1))

\* C21 (as claimed): when the response for a call whose caller gave up arrives,
\* the call's entry is freed, the frame is discarded, and the reader goes on
\* dispatching the later frames.
C21_LateResponseDiscarded ==
    [][\A c \in Calls :
          (call_pc[c] = "dropped" /\ ReadsResponseOf(c))
              => /\ reader' = "running"
                 /\ call_id[c] \notin DOMAIN pending_requests'
                 /\ response' = response]_vars

\* What the code does: the send on the dropped call's channel fails, unwrap
\* panics and the reader task is gone, the entry still in the map.
LateResponsePanics ==
    [][\A c \in Calls :
          (call_pc[c] = "dropped" /\ ReadsResponseOf(c))
              => /\ reader' = "panicked"
                 /\ call_id[c] \in DOMAIN pending_requests']_vars

\* A subscription whose stream was closed or dropped is still in the list.
ClosedSubscription == \E s \in Range(subscriptions) : ~stream_open[s]

\* The reader handles, in this step, an event frame.
ReadsEvent == ReaderStep(Frame("event", NoId, received + 1))

\* C22 (as claimed): after a subscriber dropped its stream the delivery to that
\* channel is skipped and nothing else changes: an event frame is still delivered
\* to every other open subscription and the reader stays at work.
C22_ClosedStreamSkipped ==
    [][(ClosedSubscription /\ ReadsEvent)
          => /\ reader' = "running"
             /\ \A s \in Range(subscriptions) :
                    stream_open[s]
                        => events'[s] = Append(events[s],
                                               EventItem(Frame("event", NoId, received + 1)))]_vars

\* What the code does: the send on the closed channel fails, unwrap panics and
\* the reader task is gone.
ClosedStreamPanics ==
    [][(ClosedSubscription /\ ReadsEvent) => reader' = "panicked"]_vars

\* An event frame was read while the first of two subscriptions was closed: the
\* open one received nothing.
OpenSubscriptionStarved ==
    /\ Len(subscriptions) = 2
    /\ ~stream_open[subscriptions[1]] /\ stream_open[subscriptions[2]]
    /\ arrived[subscriptions[2]] # << >>
    /\ events[subscriptions[2]] = << >>

\* C23 (as claimed): a frame that carries no recognized request id (an error
\* frame without an id included) and that does not parse as a SubscriptionEvent
\* is dropped: nothing is put on any subscription channel or response channel,
\* and the reader proceeds to the next frame.
C23_UnparsedFrameDropped ==
    [][\A k \in {"error", "other"} :
          ReaderStep(Frame(k, NoId, received + 1))
              => /\ reader' = "running"
                 /\ events' = events
                 /\ response' = response]_vars

\* What the code does with an error frame without an id: get_id().unwrap()
\* panics while the pending_requests guard is alive.
ErrorFrameWithoutIdPanics ==
    [][ReaderStep(Frame("error", NoId, received + 1))
          => reader' = "panicked" /\ pending_poisoned']_vars

\* What the code does with a frame that parses as neither: every subscription of
\* the list gets an Err item for it, up to the first closed one.
UnparsedFrameBroadcast ==
    [][ReaderStep(Frame("other", NoId, received + 1))
          => \A s \in Receivers(subscriptions) :
                events'[s] = Append(events[s],
                                    [ok |-> FALSE, frame |-> Frame("other", NoId, received + 1)])]_vars

\* A subscription has received an Err item for a frame that is no event.
ErrItemDelivered ==
    \E s \in Subs : \E i \in 1..Len(events[s]) :
        ~events[s][i].ok /\ events[s][i].frame.kind = "other"

ReusedIdReplaced ==
    (util_call.fn = "pending_requests.insert" /\ util_ret # NotReturned)
        => /\ util_ret.bytes[util_call.b.id] = util_call.b.call
           /\ \A k \in DOMAIN util_call.a :
                k # util_call.b.id => util_ret.bytes[k] = util_call.a[k]

\* The entry of call 1 under id 1 has been replaced by that of call 2.
EarlierChannelReplaced ==
    /\ util_call.fn = "pending_requests.insert"
    /\ 1 \in DOMAIN util_call.a
    /\ util_call.a[1] = 1
    /\ util_call.b = [id |-> 1, call |-> 2]
    /\ util_ret.status = "Ok"
    /\ util_ret.bytes[1] = 2

\* C25: no task holds the pending_requests mutex or the subscriptions mutex while
\* it is suspended at an await, and whenever a task waits for one of the mutexes
\* its owner is inside a critical section that runs to its end without waiting.
C25_NoMutexHeldAtAwait ==
    /\ \A t \in Tasks :
            locks.pc[t] \in AwaitPositions
                => locks.pending_owner # t /\ locks.subs_owner # t
    /\ locks.pending_owner # Free => locks.pc[locks.pending_owner] \in CriticalPositions
    /\ locks.subs_owner # Free => locks.pc[locks.subs_owner] \in CriticalPositions

\* C25 witness: one caller awaits its response, the reader holds the
\* pending_requests mutex for the lookup, and the other caller waits for it.
C25_Witness ==
    /\ locks.pc["call1"] = "recv"
    /\ locks.pc["reader"] = "lookup"
    /\ locks.pending_owner = "reader"
    /\ locks.pc["call2"] = "start"

\* The input with the sub-keys of its Amount object in another order.
WithOrder(obj, o) ==
    [obj EXCEPT !.entries =
        [i \in 1..Len(obj.entries) |->
            IF obj.entries[i].key = "Amount" /\ obj.entries[i].value.kind = "issued"
                THEN [obj.entries[i] EXCEPT !.value.form = o]
            ELSE obj.entries[i]]]

\* The input holds an Amount whose value is an object.
HasAmountObject ==
    \E i \in 1..Len(input.entries) :
        input.entries[i].key = "Amount" /\ input.entries[i].value.kind = "issued"

\* The Amount pair of an issued amount: the header of Amount with the value made
\* of the three strings of the Amount object.
IsAmountPair(p) ==
    /\ p.header_of = "Amount"
    /\ p.data = "Amount"
    /\ p.value_of = {"Amount"}
    /\ p.parts = {<<k, SubKeyForm(k)>> : k \in {"value", "currency", "issuer"}}

\* The fields the serializer holds after the Amount key and the first n sub-keys.
AfterSubKeys(o, n) ==
    serialize_sub_keys(serialize_key(NewSerializer, "Amount", FALSE), "Amount",
                       SubKeyOrder(o), n, FALSE).fields

OneAmountPair(ret) ==
    ret.status = "Ok"
        => /\ Cardinality({i \in 1..Len(ret.out) : ret.out[i].data = "Amount"
                                                    /\ "Amount" \in ret.out[i].value_of}) = 1
           /\ \E i \in 1..Len(ret.out) : IsAmountPair(ret.out[i])
           /\ \A i \in 1..Len(ret.out) :
                ret.out[i].header_of \notin {"value", "currency", "issuer"}

\* C26 (as claimed): an Amount whose value is an object gives exactly one Amount
\* pair, pushed when the third of value, currency and issuer has been seen, the
\* same for all six orders of the sub-keys, and no sub-key becomes a field.
C26_OneAmountPairPerObject ==
    /\ (HasAmountObject /\ full # NotRun)
            => /\ OneAmountPair(full)
               /\ \A o \in SubKeyOrders : to_bytes(WithOrder(input, o)) = full
    /\ (HasAmountObject /\ signing # NotRun)
            => /\ OneAmountPair(signing)
               /\ \A o \in SubKeyOrders : to_bytes_for_signing(WithOrder(input, o)) = signing
    /\ \A o \in SubKeyOrders :
            /\ AfterSubKeys(o, 2) = << >>
            /\ Len(AfterSubKeys(o, 3)) = 1

\* No entry before the Amount is an amount field holding null.
NoPendingAmountHeader ==
    \A i \in 1..Len(input.entries) :
        ~(input.entries[i].key = "Fee" /\ input.entries[i].value.kind = "null"
          /\ \E j \in (i + 1)..Len(input.entries) : input.entries[j].key = "Amount")

\* The same when no amount field before the Amount is null, or the object is
\* handed over as a struct.
OneAmountPairWithoutPendingHeader ==
    (NoPendingAmountHeader \/ input.container = "struct") => C26_OneAmountPairPerObject

\* {"Fee": null, "Amount": {...}} has been encoded to one pair: the issued amount
\* under the header of Fee.
AmountUnderFeeHeader ==
    /\ input.container = "map"
    /\ Len(input.entries) = 2
    /\ input.entries[1] = [key |-> "Fee", value |-> Null]
    /\ full.status = "Ok"
    /\ Len(full.out) = 1
    /\ full.out[1].header_of = "Fee"
    /\ full.out[1].value_of = {"Amount"}

\* The input holds a Memos array (a field of type STArray whose elements hold a
\* Memo, a field of type STObject).
HasMemos ==
    \E i \in 1..Len(input.entries) :
        input.entries[i].key = "Memos" /\ input.entries[i].value.kind = "array"

\* The returned fields hold the array as one field under the header of Memos, and
\* no field of a nested object is a field of the enclosing object.
NestedKeptApart(ret) ==
    ret.status = "Ok"
        => /\ \E i \in 1..Len(ret.out) : ret.out[i].header_of = "Memos"
           /\ \A i \in 1..Len(ret.out) : ret.out[i].header_of # "MemoData"

\* C27 (as claimed): an STArray field is emitted as its header, its element
\* objects and the end marker, an STObject field as its header, its fields and the
\* end marker; the fields of a nested object are never merged into the field
\* list of the enclosing object.
C27_NestedObjectsDelimited ==
    /\ (HasMemos /\ full # NotRun) => NestedKeptApart(full)
    /\ (HasMemos /\ signing # NotRun) => NestedKeptApart(signing)

\* What the code does: no header of Memos or Memo is ever emitted.
NestedHeadersNeverEmitted ==
    /\ full.status = "Ok"
            => \A i \in 1..Len(full.out) : full.out[i].header_of \notin {"Memos", "Memo"}
    /\ signing.status = "Ok"
            => \A i \in 1..Len(signing.out) : signing.out[i].header_of \notin {"Memos", "Memo"}

\* {"Memos": [one element]} has been encoded to the MemoData blob alone, as a field
\* of the outer object.
MemoDataAtTopLevel ==
    /\ Len(input.entries) = 1
    /\ HasMemos
    /\ full.status = "Ok"
    /\ Len(full.out) = 1
    /\ full.out[1].header_of = "MemoData"

\* The requests handed to the writer so far: written to the socket or still queued.
Handed == written \o outbound

\* The channel of the request is registered: a call's Sender under its id in
\* pending_requests, a subscription's Sender in subscriptions.
Registered(req) ==
    IF req.kind = "PendingRequest" THEN req.id \in DOMAIN pending_requests
    ELSE \E s \in Range(subscriptions) : sub_id[s] = req.id

\* C28 (as claimed): whenever a request is in the outbound queue or has been
\* written to the socket, its channel is already registered.
C28_RegisteredBeforeEnqueued ==
    \A i \in 1..Len(Handed) : Registered(Handed[i])

\* The same while the pending_requests mutex is not poisoned.
RegisteredUnlessPoisoned ==
    ~pending_poisoned => C28_RegisteredBeforeEnqueued

\* The same for the subscriptions, whose mutex no panic poisons.
SubscriptionsRegistered ==
    \A i \in 1..Len(Handed) : Handed[i].kind = "Subscription" => Registered(Handed[i])

\* A call's request has been written to the socket and its id is in no entry.
WrittenUnregistered ==
    \E i \in 1..Len(written) :
        written[i].kind = "PendingRequest" /\ written[i].id \notin DOMAIN pending_requests


\* The results with which auto_fill_fields returns an error to its caller.
ErrorResults == {"XRPLError", "FeeRequired", "FeeAboveMax", "LastLedgerSequenceRequired"}

\* C29 (as claimed): whenever auto_fill_fields returns an error (FeeRequired,
\* FeeAboveMax, LastLedgerSequenceRequired or a transport error), the wallet's
\* local sequence counter has the value it had before the call, so a failed
\* autofill leaves no gap in the sequence numbers.
C29_SequenceKeptOnError ==
    \A i \in 1..Len(fills) :
        fills[i].result \in ErrorResults =>
            fills[i].post_sequence = fills[i].pre_sequence

\* What the code does: an error of the account_info request leaves the counter as
\* it was; every later error returns after line 143 and leaves the counter one
\* past the number written into the transaction (0 after u32::MAX).
SequenceConsumedOnLaterError ==
    \A i \in 1..Len(fills) :
        fills[i].result \in ErrorResults =>
            IF fills[i].step = "account_info"
                THEN fills[i].post_sequence = fills[i].pre_sequence
                ELSE /\ fills[i].post_sequence.some
                     /\ fills[i].post_sequence.val =
                            wrapping_add(fills[i].tx_sequence, U32(0, 1))
                     /\ fills[i].post_sequence # fills[i].pre_sequence

\* A call that returned FeeAboveMax and left the counter advanced.
SequenceGapAfterFeeAboveMax ==
    \E i \in 1..Len(fills) :
        /\ fills[i].result = "FeeAboveMax"
        /\ fills[i].pre_sequence.some
        /\ fills[i].post_sequence # fills[i].pre_sequence


\* The serializer after the first n entries of the input, and the pairs it has
\* collected when serialize returns, before they are sorted and encoded.
AfterEntries(n) == serialize_entries(input.container, input.entries, n, FALSE)
CollectedPairs == serialize(input, FALSE).fields

\* The i-th entry is a serialized field with a value that makes a pair.
UsableEntry(i) ==
    /\ is_serialized_field(input.entries[i].key)
    /\ input.entries[i].value.kind # "null"

PendingHeaderLaw(entries_checked) ==
    /\ \A n \in 1..Len(input.entries) :
        input.entries[n].value.kind = "null" => ~AfterEntries(n).field.some
    /\ \A j \in 1..Len(CollectedPairs) :
        CollectedPairs[j].origins = {CollectedPairs[j].key}
    /\ \A i \in entries_checked :
        UsableEntry(i) =>
            Cardinality({j \in 1..Len(CollectedPairs) :
                            input.entries[i].key \in CollectedPairs[j].origins}) = 1

\* C30 (as claimed): a value is stored only under the header of its own key; after
\* a key whose value makes no pair (null) no header is pending when the next key
\* arrives, so a later key is neither taken for a sub-key nor encoded under the
\* earlier header; every serialized key with a usable value yields exactly one pair.
C30_PendingHeaderCleared ==
    full # NotRun => PendingHeaderLaw(1..Len(input.entries))

\* The same for the objects that hold neither a null nor an array.
OwnHeaderWithoutNullsOrArrays ==
    (/\ full # NotRun
     /\ \A i \in 1..Len(input.entries) : input.entries[i].value.kind \notin {"null", "array"})
        => PendingHeaderLaw(1..Len(input.entries))

\* The map {"Amount": null, "Account": address} was encoded to no field at all:
\* Account was taken for a sub-key of the pending Amount header.
AccountSwallowedAfterNull ==
    /\ input.container = "map"
    /\ Len(input.entries) = 2
    /\ input.entries[1] = [key |-> "Amount", value |-> Null]
    /\ input.entries[2].key = "Account" /\ input.entries[2].value.kind = "str"
    /\ full.status = "Ok"
    /\ full.out = << >>

\* A struct whose last field is null was encoded: end() stored the pending header
\* with no value and the call panicked.
TrailingNullPanics ==
    /\ input.container = "struct"
    /\ Len(input.entries) = 2
    /\ input.entries[1].value.kind # "null"
    /\ input.entries[2] = [key |-> "Sequence", value |-> Null]
    /\ full.status = "Panic"

============================================================================
